---- MODULE Spec2Model ----
(***************************************************************************)
(* Model of the VulnHunter tool adapters (Slither, Mythril, Echidna) and   *)
(* of the Docker sandbox executor they share.                              *)
(*                                                                         *)
(* The specifications that live here:                                      *)
(*   Spec       one adapter instance; analyze is called again and again;   *)
(*              the docker client process, the named container, the timeout,*)
(*              the forced kill and task cancellation are explicit steps.  *)
(*   SpecMap    the mapping loops of the three parsers as pure functions of*)
(*              the list of entries the tool reports.                      *)
(*   SpecConc   several adapter instances and concurrent run_in_container  *)
(*              invocations, reduced to the container names they use.      *)
(*   SpecPipe   one call of VulnHunterPipeline.analyze over a selection of *)
(*              tools and the results their adapters give.                 *)
(*   SpecReport one AnalysisReport: construction, added vulnerabilities,   *)
(*              metrics and the risk score in binary64 arithmetic.         *)
(*   SpecAgg    ToolResults folded into a report in their arrival order.   *)
(*   SpecCmd    the docker run command line built by run_in_container.     *)
(*   SpecSev    the adapters' severity tables applied to reported values.  *)
(*   SpecLife   one adapter object's initialize, cleanup and analyze calls *)
(*              and its use as an async context manager.                   *)
(*   SpecTime   an AnalysisReport's timestamps and its duration property.  *)
(*   SpecWrap   one run of a container wrapper script, with the compiler   *)
(*              version detection it starts.                               *)
(***************************************************************************)
EXTENDS Integers, Sequences, FiniteSets, TLC

\* ------------------------------------------------------------------ bounds
\* longest list of entries drawn for a mapping loop
MaxEntries == 3
\* adapter instances constructed in SpecConc
NumWrappers == 2
\* concurrent run_in_container invocations in SpecConc
MaxRuns == 2
\* distinct readings of time.time() * 1000000 in SpecConc, and the clock
\* readings after the first in SpecTime
MaxClock == 2
\* distinct random suffixes drawn in SpecConc, counted from RandLo
RandChoices == 2

\* the longest list of vulnerabilities a report is given
MaxVulns == 2
\* the longest list of severity values handed to a severity mapping
MaxSeverities == 2
\* the most method calls made on one adapter object
MaxCalls == 4

\* ------------------------------------------------------- program constants
RandLo == 1000
DefaultTimeout == 300

Tools == {"slither", "mythril", "echidna"}

\* ------------------------------------------------------------ Optional[List]
\* _parse_output and _parse_wrapper_output return Optional[List[Finding]];
\* Raised stands for an exception leaving the parser.
List(fs) == [tag |-> "list", items |-> fs]
NoneList == [tag |-> "none", items |-> <<>>]
Raised == [tag |-> "raise", items |-> <<>>]

\* ------------------------------------------------------------ Slither maps
SlitherDetectorKeys ==
    {"reentrancy-eth", "reentrancy-no-eth", "reentrancy-benign",
     "reentrancy-events", "reentrancy-unlimited-gas", "unprotected-upgrade",
     "suicidal", "unchecked-transfer", "unchecked-lowlevel", "unchecked-send",
     "arbitrary-send", "controlled-delegatecall", "delegatecall-loop",
     "timestamp", "weak-prng", "divide-before-multiply", "locked-ether",
     "tx-origin", "shadowing-state", "incorrect-equality",
     "uninitialized-state", "uninitialized-storage", "uninitialized-local",
     "pragma", "solc-version"}

detector_mapping(check) ==
    CASE check \in {"reentrancy-eth", "reentrancy-no-eth", "reentrancy-benign",
                    "reentrancy-events", "reentrancy-unlimited-gas"} -> "reentrancy"
      [] check \in {"unprotected-upgrade", "tx-origin"} -> "access_control"
      [] check = "suicidal" -> "unprotected_selfdestruct"
      [] check \in {"unchecked-transfer", "unchecked-lowlevel"} -> "unchecked_call"
      [] check = "unchecked-send" -> "unchecked_send"
      [] check = "arbitrary-send" -> "unprotected_ether"
      [] check \in {"controlled-delegatecall", "delegatecall-loop"} -> "delegatecall"
      [] check = "timestamp" -> "timestamp_dependence"
      [] check = "weak-prng" -> "weak_randomness"
      [] check = "divide-before-multiply" -> "integer_overflow"
      [] check = "locked-ether" -> "unexpected_ether"
      [] check = "shadowing-state" -> "shadowing"
      [] check \in {"incorrect-equality", "uninitialized-state",
                    "uninitialized-storage", "uninitialized-local"} -> "logic_error"
      [] check = "pragma" -> "floating_pragma"
      [] check = "solc-version" -> "outdated_compiler"
      [] OTHER -> "unknown"

swc_mapping(vt) ==
    CASE vt = "reentrancy" -> "SWC-107"
      [] vt \in {"integer_overflow", "integer_underflow"} -> "SWC-101"
      [] vt = "unprotected_selfdestruct" -> "SWC-106"
      [] vt = "unprotected_ether" -> "SWC-105"
      [] vt = "unchecked_call" -> "SWC-104"
      [] vt = "floating_pragma" -> "SWC-103"
      [] vt = "outdated_compiler" -> "SWC-102"
      [] vt = "delegatecall" -> "SWC-112"
      [] vt = "weak_randomness" -> "SWC-120"
      [] vt = "timestamp_dependence" -> "SWC-116"
      [] vt = "shadowing" -> "SWC-119"
      [] vt = "unchecked_send" -> "SWC-113"
      [] vt = "access_control" -> "SWC-115"
      [] OTHER -> "none"

Slither_map_severityOtherLow(impact) ==
    CASE impact = "High" -> "high"
      [] impact = "Medium" -> "medium"
      [] impact = "Low" -> "low"
      [] impact \in {"Informational", "Optimization"} -> "info"
      [] OTHER -> "low"

Slither_map_severity(impact) ==
    CASE impact = "High" -> "high"
      [] impact = "Medium" -> "medium"
      [] impact = "Low" -> "low"
      [] impact \in {"Informational", "Optimization"} -> "info"
      [] OTHER -> "medium"

\* confidence scores are kept in hundredths: 0.9 is 90
Slither_confidence_to_score(confidence) ==
    CASE confidence = "High" -> 90
      [] confidence = "Medium" -> 70
      [] confidence = "Low" -> 50
      [] OTHER -> 70

\* dict.get(key, default): a missing key is the value "absent"
Get(v, default) == IF v = "absent" THEN default ELSE v

\* One pass of the loop over detectors: the Finding built from one detector.
SlitherFinding(detector) ==
    LET check == Get(detector.check, "unknown")
        vuln_type == detector_mapping(check)
    IN  [tool |-> "slither",
         title |-> Get(detector.check, "Unknown Issue"),
         vulnerability_type |-> vuln_type,
         severity |-> Slither_map_severity(Get(detector.impact, "Medium")),
         confidence |-> Slither_confidence_to_score(Get(detector.confidence, "Medium")),
         location |-> detector.elements,
         swc_id |-> swc_mapping(vuln_type)]

\* The loop over detectors. A detector that is not a JSON object has no .get:
\* the AttributeError is caught by the parser's except Exception (None).
\* SlitherLoop with detectors outside detector_mapping left out
RECURSIVE SlitherLoopDropUnknown(_)
SlitherLoopDropUnknown(detectors) ==
    IF detectors = <<>> THEN <<>>
    ELSE IF detector_mapping(Get(Head(detectors).check, "unknown")) = "unknown"
         THEN SlitherLoopDropUnknown(Tail(detectors))
         ELSE <<SlitherFinding(Head(detectors))>>
                 \o SlitherLoopDropUnknown(Tail(detectors))

RECURSIVE SlitherLoop(_)
SlitherLoop(detectors) ==
    IF detectors = <<>> THEN <<>>
    ELSE <<SlitherFinding(Head(detectors))>> \o SlitherLoop(Tail(detectors))

SlitherMap(detectors) ==
    IF \E n \in 1..Len(detectors) : ~detectors[n].isdict
    THEN NoneList
    ELSE List(SlitherLoop(detectors))

\* ------------------------------------------------------------ Mythril maps
swc_to_vuln_type(swc_id) ==
    CASE swc_id = "SWC-101" -> "integer_overflow"
      [] swc_id = "SWC-104" -> "unchecked_call"
      [] swc_id = "SWC-105" -> "unprotected_ether"
      [] swc_id = "SWC-106" -> "unprotected_selfdestruct"
      [] swc_id = "SWC-107" -> "reentrancy"
      [] swc_id = "SWC-110" -> "logic_error"
      [] swc_id = "SWC-112" -> "delegatecall"
      [] swc_id = "SWC-113" -> "unchecked_send"
      [] swc_id = "SWC-115" -> "access_control"
      [] swc_id = "SWC-116" -> "timestamp_dependence"
      [] swc_id = "SWC-120" -> "weak_randomness"
      [] swc_id = "SWC-124" -> "access_control"
      [] swc_id = "SWC-128" -> "dos_gas_limit"
      [] OTHER -> "unknown"

Mythril_map_severity(severity) ==
    CASE severity = "High" -> "high"
      [] severity = "Medium" -> "medium"
      [] severity = "Low" -> "low"
      [] severity = "Informational" -> "info"
      [] OTHER -> "medium"

\* issue.get("swc-id") or issue.get("swcID") or "": a missing id is ""
MythrilFinding(issue) ==
    LET swc_id == Get(issue.swc, "")
    IN  [tool |-> "mythril",
         title |-> Get(issue.title, "Unknown Issue"),
         vulnerability_type |-> swc_to_vuln_type(swc_id),
         severity |-> Mythril_map_severity(Get(issue.severity, "Medium")),
         confidence |-> 80,
         location |-> IF issue.lineno # 0 THEN "some" ELSE "none",
         swc_id |-> swc_id]

\* The loop over issues: an entry that is not a JSON object is skipped.
RECURSIVE MythrilLoop(_)
MythrilLoop(issues) ==
    IF issues = <<>> THEN <<>>
    ELSE IF ~Head(issues).isdict THEN MythrilLoop(Tail(issues))
    ELSE <<MythrilFinding(Head(issues))>> \o MythrilLoop(Tail(issues))

MythrilMap(issues) == List(MythrilLoop(issues))

\* ------------------------------------------------------------ Echidna maps
\* property_to_vuln_type, in the insertion order the loop walks it
EchidnaKeywords ==
    << <<"balance", "unprotected_ether">>, <<"theft", "unprotected_ether">>,
       <<"reentrancy", "reentrancy">>, <<"overflow", "integer_overflow">>,
       <<"underflow", "integer_underflow">>, <<"access", "access_control">>,
       <<"dos", "dos_gas_limit">> >>

\* keyword in property_name.lower(), for the property names the model draws
KeywordIn(keyword, property_name) ==
    CASE property_name = "balance_ok" -> keyword = "balance"
      [] property_name = "no_Theft" -> keyword = "theft"
      [] property_name = "overflow_reentrancy" -> keyword \in {"overflow", "reentrancy"}
      [] property_name = "access_dos" -> keyword \in {"access", "dos"}
      [] property_name = "underflow" -> keyword = "underflow"
      [] OTHER -> FALSE

RECURSIVE FirstKeyword(_, _)
FirstKeyword(property_name, n) ==
    IF n > Len(EchidnaKeywords) THEN "unknown"
    ELSE IF KeywordIn(EchidnaKeywords[n][1], property_name) THEN EchidnaKeywords[n][2]
    ELSE FirstKeyword(property_name, n + 1)

property_to_vuln_type(property_name) == FirstKeyword(property_name, 1)

EchidnaFinding(property_name) ==
    [tool |-> "echidna",
     title |-> property_name,
     vulnerability_type |-> property_to_vuln_type(property_name),
     severity |-> "high",
     confidence |-> 90,
     location |-> "none",
     swc_id |-> "none"]

AssertionFinding ==
    [tool |-> "echidna",
     title |-> "Assertion Failure",
     vulnerability_type |-> "logic_error",
     severity |-> "high",
     confidence |-> 90,
     location |-> "some",
     swc_id |-> "none"]

\* One Finding per match of echidna_(\w+):\s*failed, in the order of the matches.
RECURSIVE EchidnaLoop(_)
EchidnaLoop(properties) ==
    IF properties = <<>> THEN <<>>
    ELSE <<EchidnaFinding(Head(properties))>> \o EchidnaLoop(Tail(properties))

EchidnaMap(properties) == List(EchidnaLoop(properties))

\* _parse_json_output: one Finding per test whose status is failed.
RECURSIVE EchidnaJsonLoop(_)
EchidnaJsonLoop(tests) ==
    IF tests = <<>> THEN <<>>
    ELSE IF ~Head(tests).failed THEN EchidnaJsonLoop(Tail(tests))
    ELSE <<EchidnaFinding(Head(tests).name)>> \o EchidnaJsonLoop(Tail(tests))

RECURSIVE Repeat(_, _)
Repeat(x, n) == IF n = 0 THEN <<>> ELSE <<x>> \o Repeat(x, n - 1)

\* ----------------------------------------------------------------- parsers
\* Text is modelled by what json.loads and the parsers' tests make of it.
\*
\* The container's stdout, so:
\*   k       "empty"  the empty string
\*           "text"   not JSON (a traceback, or log lines before the JSON)
\*           "scalar" JSON that is not an object (a list, a number, null)
\*           "obj"    a JSON object
\*   marker  the text holds the word "success" or the word "detectors"
\*   status  the object's "status" key ("absent" when it has none)
\*   out     the object's "stdout" key, a tool document (below)
\*
\* A Slither tool document, d:
\*   k       "nonstring" | "blank" | "nobrace" | "badjson" | "obj"
\*   status  the "status" key of the object that starts at the first brace
\*   rk      that object's "stdout" key: "nonstring" | "blank" | "badjson" |
\*           "scalar" | "report"
\*   success, detectors   the report's "success" and results.detectors
Slither_parse_output(d) ==
    CASE d.k = "nonstring" -> NoneList
      [] d.k \in {"blank", "nobrace"} -> List(<<>>)
      [] d.k = "badjson" -> NoneList
      [] OTHER ->
           IF d.status # "success" THEN List(<<>>)
           ELSE CASE d.rk = "blank" -> List(<<>>)
                  [] d.rk \in {"nonstring", "badjson", "scalar"} -> NoneList
                  [] OTHER -> IF ~d.success THEN NoneList
                              ELSE SlitherMap(d.detectors)

Slither_parse_wrapper_output(so) ==
    CASE so.k \in {"empty", "text"} -> List(<<>>)
      [] so.k = "scalar" -> Raised
      [] OTHER -> IF so.status # "success" THEN List(<<>>)
                  ELSE Slither_parse_output(so.out)

\* A Mythril tool document, d:
\*   k       "nonstring" | "blank" | "badjson" | "scalar" | "list" | "dict"
\*   key     for a dict: "issues" | "results" | "neither"
\*   issues  the list of issues
Mythril_parse_output(d) ==
    CASE d.k = "nonstring" -> NoneList
      [] d.k = "blank" -> List(<<>>)
      [] d.k \in {"badjson", "scalar"} -> NoneList
      [] d.k = "dict" /\ d.key = "neither" -> List(<<>>)
      [] OTHER -> MythrilMap(d.issues)

Mythril_parse_wrapper_output(so) ==
    CASE so.k \in {"empty", "text"} -> List(<<>>)
      [] so.k = "scalar" -> Raised
      [] OTHER -> IF so.status # "success" THEN List(<<>>)
                  ELSE Mythril_parse_output(so.out)

\* An Echidna tool document, d (the wrapper's "stdout" and "stderr" keys):
\*   k       of stdout: "nonstring" | "blank" | "text" | "badjson" | "json"
\*           ("badjson" and "json" start with a brace)
\*   tests   for "json": "absent" | "nondict" | "dict"
\*   results for tests = "dict": the (name, failed) pairs
\*   failed  the property names matched by echidna_(\w+):\s*failed in
\*           stdout + "\n" + stderr, in order
\*   asserts the number of matches of the assertion-failure pattern
Echidna_parse_json_output(d) ==
    CASE d.tests = "absent" -> List(<<>>)
      [] d.tests = "nondict" -> Raised
      [] OTHER -> List(EchidnaJsonLoop(d.results))

Echidna_parse_output(d) ==
    CASE d.k = "nonstring" -> NoneList
      [] d.k = "json" ->
           IF Echidna_parse_json_output(d) = Raised THEN NoneList
           ELSE Echidna_parse_json_output(d)
      [] OTHER -> List(EchidnaMap(d.failed).items \o Repeat(AssertionFinding, d.asserts))

Echidna_parse_wrapper_output(so) ==
    CASE so.k \in {"empty", "text"} -> List(<<>>)
      [] so.k = "scalar" -> Raised
      [] OTHER -> IF so.status # "success" THEN List(<<>>)
                  ELSE Echidna_parse_output(so.out)

parse_wrapper_output(tool, so) ==
    CASE tool = "slither" -> Slither_parse_wrapper_output(so)
      [] tool = "mythril" -> Mythril_parse_wrapper_output(so)
      [] OTHER -> Echidna_parse_wrapper_output(so)

\* ------------------------------------------------------------- ToolResult
ToolResult(tool, status, findings, raw_output, error_message) ==
    [tool_name |-> tool, status |-> status, findings |-> findings,
     raw_output |-> raw_output, error_message |-> error_message]

\* raw_output=stdout: "empty" is the empty string, "text" anything longer
RawStdout(so) == IF so.k = "empty" THEN "empty" ELSE "text"

\* "success" in stdout or "detectors" in stdout, behind `stdout and`
SlitherMarker(so) == so.k # "empty" /\ so.marker

NoResult == ToolResult("none", "none", List(<<>>), "None", "None")

\* How a call of analyze ends: it returns a ToolResult, or an exception
\* leaves it.
Returned(r) == [result |-> r, raised |-> "none"]
Propagated(e) == [result |-> NoResult, raised |-> e]

FailedPrefix(tool) ==
    CASE tool = "slither" -> "Slither analysis failed"
      [] tool = "mythril" -> "Mythril analysis failed"
      [] OTHER -> "Echidna analysis failed"

\* analyze_except without the except Exception clause
analyze_exceptTimeoutOnly(tool, e) ==
    IF e = "TimeoutError"
    THEN Returned(ToolResult(tool, "timeout", List(<<>>), "None", "timed out"))
    ELSE Propagated(e)

\* The except clauses of analyze. asyncio.CancelledError derives from
\* BaseException: neither clause catches it.
analyze_except(tool, e) ==
    CASE e = "TimeoutError" ->
           Returned(ToolResult(tool, "timeout", List(<<>>), "None", "timed out"))
      [] e = "CancelledError" -> Propagated(e)
      [] OTHER ->
           Returned(ToolResult(tool, "error", List(<<>>), "None", FailedPrefix(tool)))

\* analyze, from the return of run_in_container on: ret is the tuple
\* (stdout, stderr, returncode); of stderr the model keeps errmark, whether it
\* holds "The analysis was completed successfully".
SlitherClassify(ret, findings) ==
    IF findings # NoneList
    THEN ToolResult("slither", "success", findings, RawStdout(ret.stdout), "None")
    ELSE IF SlitherMarker(ret.stdout)
         THEN ToolResult("slither", "success", List(<<>>), RawStdout(ret.stdout), "None")
         ELSE ToolResult("slither", "error", List(<<>>), RawStdout(ret.stdout),
                         "Failed to parse Slither output")

\* MythrilClassify that takes a non-zero exit code for a failure
MythrilClassifyExitZero(ret, findings) ==
    IF findings # NoneList /\ ret.returncode = 0
    THEN ToolResult("mythril", "success", findings, RawStdout(ret.stdout), "None")
    ELSE ToolResult("mythril", "error", List(<<>>), RawStdout(ret.stdout),
                    "Mythril analysis failed. Stderr")

MythrilClassify(ret, findings) ==
    IF findings # NoneList
    THEN ToolResult("mythril", "success", findings, RawStdout(ret.stdout), "None")
    ELSE IF ret.returncode = 0 /\ ret.errmark
         THEN ToolResult("mythril", "success", List(<<>>), RawStdout(ret.stdout), "None")
         ELSE ToolResult("mythril", "error", List(<<>>), RawStdout(ret.stdout),
                         "Mythril analysis failed. Stderr")

\* EchidnaClassify without the `findings is not None` test
EchidnaClassifyNoNoneTest(ret, findings) ==
    ToolResult("echidna", "success", findings, "text", "None")

\* raw_output=stdout + "\n" + stderr is never empty
EchidnaClassify(ret, findings) ==
    IF findings # NoneList
    THEN ToolResult("echidna", "success", findings, "text", "None")
    ELSE ToolResult("echidna", "error", List(<<>>), "text",
                    "Echidna analysis failed. Stderr")

Classify(tool, ret) ==
    LET findings == parse_wrapper_output(tool, ret.stdout)
    IN  IF findings = Raised THEN analyze_except(tool, "AttributeError")
        ELSE Returned(CASE tool = "slither" -> SlitherClassify(ret, findings)
                        [] tool = "mythril" -> MythrilClassify(ret, findings)
                        [] OTHER -> EchidnaClassify(ret, findings))

\* Target resolution: "found" when analyze goes on to run_in_container,
\* "none" when it returns early, "raise" when Path.is_file / is_dir / glob
\* raises (a permission error).
\*   path  "file" | "dir_match" | "dir_empty" | "unreadable"
\* dir_empty is a directory without a file the adapter's pattern matches
\* (*.sol for Mythril, Test*.sol for Echidna). Slither passes "." on.
Resolve(tool, path) ==
    CASE path = "unreadable" -> "raise"
      [] path = "dir_empty" /\ tool \in {"mythril", "echidna"} -> "none"
      [] OTHER -> "found"

NoFilesMessage(tool) ==
    IF tool = "mythril" THEN "No Solidity files found in directory"
    ELSE "No Echidna test contracts found"

\* ------------------------------------------------- the outputs the model draws
SD(k, status, rk, success, detectors) ==
    [k |-> k, status |-> status, rk |-> rk, success |-> success,
     detectors |-> detectors]

DetReentrancy ==
    [isdict |-> TRUE, check |-> "reentrancy-eth", impact |-> "High",
     confidence |-> "Medium", elements |-> "some"]
DetCustom ==
    [isdict |-> TRUE, check |-> "custom-detector", impact |-> "Critical",
     confidence |-> "absent", elements |-> "none"]
DetNoCheck ==
    [isdict |-> TRUE, check |-> "absent", impact |-> "absent",
     confidence |-> "Low", elements |-> "none"]
DetNotObject ==
    [isdict |-> FALSE, check |-> "absent", impact |-> "absent",
     confidence |-> "absent", elements |-> "none"]

SlitherSamples == {<<>>, <<DetReentrancy>>, <<DetReentrancy, DetCustom>>}

SlitherDocs ==
    {SD(k, "absent", "blank", FALSE, <<>>) :
        k \in {"nonstring", "blank", "nobrace", "badjson"}}
    \cup {SD("obj", st, "blank", FALSE, <<>>) : st \in {"error", "absent"}}
    \cup {SD("obj", "success", rk, FALSE, <<>>) :
        rk \in {"blank", "nonstring", "badjson", "scalar", "report"}}
    \cup {SD("obj", "success", "report", TRUE, ds) : ds \in SlitherSamples}

MD(k, key, issues) == [k |-> k, key |-> key, issues |-> issues]

IssueReentrancy ==
    [isdict |-> TRUE, swc |-> "SWC-107", title |-> "External Call",
     severity |-> "High", lineno |-> 12]
IssueBareId ==
    [isdict |-> TRUE, swc |-> "107", title |-> "absent",
     severity |-> "Critical", lineno |-> 0]
IssueNoId ==
    [isdict |-> TRUE, swc |-> "absent", title |-> "absent",
     severity |-> "absent", lineno |-> 0]
IssueNotObject ==
    [isdict |-> FALSE, swc |-> "absent", title |-> "absent",
     severity |-> "absent", lineno |-> 0]

MythrilSamples == {<<>>, <<IssueReentrancy>>, <<IssueReentrancy, IssueBareId>>}

MythrilDocs ==
    {MD(k, "neither", <<>>) :
        k \in {"nonstring", "blank", "badjson", "scalar", "dict"}}
    \cup {MD("dict", "issues", is) : is \in MythrilSamples}
    \cup {MD("dict", "results", <<IssueReentrancy>>),
          MD("list", "neither", <<IssueBareId>>)}

ED(k, tests, results, failed, asserts) ==
    [k |-> k, tests |-> tests, results |-> results, failed |-> failed,
     asserts |-> asserts]

EchidnaSamples == {<<>>, <<"balance_ok">>, <<"balance_ok", "custom_prop">>}

EchidnaDocs ==
    {ED("nonstring", "absent", <<>>, <<>>, 0),
     ED("blank", "absent", <<>>, <<>>, 0),
     ED("badjson", "absent", <<>>, <<"balance_ok">>, 0),
     ED("badjson", "absent", <<>>, <<>>, 0),
     ED("json", "absent", <<>>, <<>>, 0),
     ED("json", "nondict", <<>>, <<>>, 0),
     ED("json", "dict", <<>>, <<>>, 0),
     ED("json", "dict",
        <<[name |-> "balance_ok", failed |-> TRUE],
          [name |-> "custom_prop", failed |-> FALSE]>>, <<>>, 0)}
    \cup {ED("text", "absent", <<>>, ps, n) : ps \in EchidnaSamples, n \in {0, 1}}

ToolDocs(tool) ==
    CASE tool = "slither" -> SlitherDocs
      [] tool = "mythril" -> MythrilDocs
      [] OTHER -> EchidnaDocs

\* the "stdout" key of an object that is not read
Unread(tool) ==
    CASE tool = "slither" -> SD("blank", "absent", "blank", FALSE, <<>>)
      [] tool = "mythril" -> MD("blank", "neither", <<>>)
      [] OTHER -> ED("blank", "absent", <<>>, <<>>, 0)

SO(k, marker, status, out) ==
    [k |-> k, marker |-> marker, status |-> status, out |-> out]

\* What the container can print. An object whose status is "success" holds
\* the word "success". The wrapper scripts print two log lines before the
\* JSON object: that stdout is SO("text", TRUE, ...).
Stdouts(tool) ==
    {SO("empty", FALSE, "absent", Unread(tool)),
     SO("scalar", FALSE, "absent", Unread(tool)),
     SO("obj", FALSE, "absent", Unread(tool))}
    \cup {SO("text", m, "absent", Unread(tool)) : m \in BOOLEAN}
    \cup {SO("obj", m, "error", Unread(tool)) : m \in BOOLEAN}
    \cup {SO("obj", TRUE, "success", d) : d \in ToolDocs(tool)}

\* slither-wrapper.py, main: run_slither prints "Analyzing contract: ..."
\* and "Using Solidity compiler: ..." and main then prints the JSON object
\* {"status": "success", "stdout": <Slither's report>, ...}.  The whole
\* stdout therefore starts with the log lines: it is not JSON, and it
\* holds the word "success".
slither_wrapper_stdout(detectors) ==
    SO("text", TRUE, "absent", Unread("slither"))

\* echidna-wrapper.py, main: the same two log lines come before the JSON
\* object that carries Echidna's text report with its failed properties.
echidna_wrapper_stdout(failed) ==
    SO("text", TRUE, "absent", Unread("echidna"))

ExitCodes == {0, 1}

\* the tuples (stdout, stderr, returncode) a finished container leaves
Outcomes(tool) ==
    [stdout : Stdouts(tool), errmark : BOOLEAN, returncode : ExitCodes]

\* docker run against a name that is in use: nothing on stdout, exit 125
ConflictOutcome(tool) ==
    [stdout |-> SO("empty", FALSE, "absent", Unread(tool)),
     errmark |-> FALSE, returncode |-> 125]

NoOutcome(tool) ==
    [stdout |-> SO("empty", FALSE, "absent", Unread(tool)),
     errmark |-> FALSE, returncode |-> 0]

TimeoutConfigs == {0, DefaultTimeout}
Paths == {"file", "dir_match", "dir_empty", "unreadable"}

\* ------------------------------------------------------------ AnalysisReport
\* Dict[key, int]: a function on the keys present
EmptyDict == <<>>

\* AnalysisMetrics(): the defaults of the counting fields
AnalysisMetrics ==
    [total_vulnerabilities |-> 0, by_severity |-> EmptyDict,
     by_type |-> EmptyDict, by_swc |-> EmptyDict]

\* AnalysisReport(contract_name=..., status=...): every other field takes
\* its default
AnalysisReport(contract_name, status) ==
    [contract_name |-> contract_name, status |-> status,
     vulnerabilities |-> <<>>, tool_results |-> <<>>,
     metrics |-> AnalysisMetrics]

NoReport == AnalysisReport("None", "None")

\* VulnHunterPipeline.analyze(target, config): the value it returns
PipelineReport(target, config) == AnalysisReport("Placeholder", "completed")

\* What an adapter can hand back for a target: SUCCESS without findings,
\* SUCCESS with findings, ERROR, TIMEOUT.
SampleFindings(t) ==
    CASE t = "slither" -> SlitherLoop(<<DetReentrancy>>)
      [] t = "mythril" -> MythrilLoop(<<IssueReentrancy>>)
      [] OTHER -> EchidnaLoop(<<"balance_ok">>)

AdapterResults(t) ==
    {ToolResult(t, "success", List(<<>>), "text", "None"),
     ToolResult(t, "success", List(SampleFindings(t)), "text", "None"),
     analyze_except(t, "OSError").result,
     analyze_except(t, "TimeoutError").result}

\* -------------------------------------------------------------- Python float
\* A natural number of any size is the sequence of its bits, least
\* significant first, without leading zeros.  A float is [m, e]: the value
\* m * 2^e with m odd, or zero.  Every operation rounds its exact result to
\* the nearest float, ties to even, as the interpreter's arithmetic does.
\* Only the non-negative floats occur in calculate_risk_score.
\* the significand of a Python float (IEEE-754 binary64) has 53 bits
Precision == 53

Max2(a, b) == IF a >= b THEN a ELSE b
Min2(a, b) == IF a <= b THEN a ELSE b

Bit(a, i) == IF i <= Len(a) THEN a[i] ELSE 0

RECURSIVE BNorm(_)
BNorm(a) ==
    IF a = <<>> THEN <<>>
    ELSE IF a[Len(a)] = 1 THEN a
    ELSE BNorm(SubSeq(a, 1, Len(a) - 1))

RECURSIVE BAddFrom(_, _, _, _)
BAddFrom(a, b, i, c) ==
    IF i > Max2(Len(a), Len(b)) THEN (IF c = 1 THEN <<1>> ELSE <<>>)
    ELSE LET s == Bit(a, i) + Bit(b, i) + c
         IN  <<s % 2>> \o BAddFrom(a, b, i + 1, s \div 2)

BAdd(a, b) == BAddFrom(a, b, 1, 0)

\* a - b for a >= b
RECURSIVE BSubFrom(_, _, _, _)
BSubFrom(a, b, i, c) ==
    IF i > Len(a) THEN <<>>
    ELSE LET s == Bit(a, i) - Bit(b, i) - c
         IN  <<s % 2>> \o BSubFrom(a, b, i + 1, IF s < 0 THEN 1 ELSE 0)

BSub(a, b) == BNorm(BSubFrom(a, b, 1, 0))

\* a < b on the bits 1..i, for Len(a) = Len(b)
RECURSIVE BLessFrom(_, _, _)
BLessFrom(a, b, i) ==
    IF i = 0 THEN FALSE
    ELSE IF a[i] # b[i] THEN a[i] < b[i]
    ELSE BLessFrom(a, b, i - 1)

BLess(a, b) ==
    IF Len(a) # Len(b) THEN Len(a) < Len(b) ELSE BLessFrom(a, b, Len(a))

BShl(a, k) == IF a = <<>> THEN <<>> ELSE [i \in 1..k |-> 0] \o a

RECURSIVE BMul(_, _)
BMul(a, b) ==
    IF b = <<>> THEN <<>>
    ELSE BAdd(IF b[1] = 1 THEN a ELSE <<>>, BShl(BMul(a, Tail(b)), 1))

\* long division, most significant bit first: <<quotient, remainder>> after
\* the bits i..1 of n have been brought down onto the pair qr
RECURSIVE BDivFrom(_, _, _, _)
BDivFrom(n, d, i, qr) ==
    IF i = 0 THEN qr
    ELSE LET r == BNorm(<<n[i]>> \o qr[2])
         IN  IF BLess(r, d)
             THEN BDivFrom(n, d, i - 1, <<<<0>> \o qr[1], r>>)
             ELSE BDivFrom(n, d, i - 1, <<<<1>> \o qr[1], BSub(r, d)>>)

BDivMod(n, d) ==
    LET qr == BDivFrom(n, d, Len(n), <<<<>>, <<>>>>)
    IN  <<BNorm(qr[1]), qr[2]>>

RECURSIVE BFromInt(_)
BFromInt(n) == IF n = 0 THEN <<>> ELSE <<n % 2>> \o BFromInt(n \div 2)

FZero == [m |-> <<>>, e |-> 0]

RECURSIVE TrailingZeros(_, _)
TrailingZeros(n, z) == IF n[z + 1] = 1 THEN z ELSE TrailingZeros(n, z + 1)

FNorm(n, e) ==
    IF n = <<>> THEN FZero
    ELSE LET z == TrailingZeros(n, 0)
         IN  [m |-> SubSeq(n, z + 1, Len(n)), e |-> e + z]

FRound(n, e, sticky) ==
    IF Len(n) <= Precision THEN FNorm(n, e)
    ELSE LET d == Len(n) - Precision
             q == SubSeq(n, d + 1, Len(n))
             st == sticky \/ \E i \in 1..(d - 1) : n[i] = 1
             up == n[d] = 1 /\ (st \/ q[1] = 1)
         IN  FNorm(IF up THEN BAdd(q, <<1>>) ELSE q, e + d)

FromInt(n) == FNorm(BFromInt(n), 0)

FAdd(x, y) ==
    IF x.m = <<>> THEN y
    ELSE IF y.m = <<>> THEN x
    ELSE LET e == Min2(x.e, y.e)
         IN  FRound(BAdd(BShl(x.m, x.e - e), BShl(y.m, y.e - e)), e, FALSE)

FMul(x, y) ==
    IF x.m = <<>> \/ y.m = <<>> THEN FZero
    ELSE FRound(IF Len(x.m) >= Len(y.m) THEN BMul(x.m, y.m) ELSE BMul(y.m, x.m),
                x.e + y.e, FALSE)

FDiv(x, y) ==
    IF x.m = <<>> THEN FZero
    ELSE LET k == Max2(0, Precision + 2 + Len(y.m) - Len(x.m))
             qr == BDivMod(BShl(x.m, k), y.m)
         IN  FRound(qr[1], x.e - y.e - k, qr[2] # <<>>)

FLess(x, y) ==
    IF y.m = <<>> THEN FALSE
    ELSE IF x.m = <<>> THEN TRUE
    ELSE LET e == Min2(x.e, y.e)
         IN  BLess(BShl(x.m, x.e - e), BShl(y.m, y.e - e))

FMin(x, y) == IF FLess(y, x) THEN y ELSE x

\* --------------------------------------------------------------- risk score
SeverityLevel == <<"info", "low", "medium", "high", "critical">>

\* a float literal with two decimals, given in hundredths
Hundredths(n) == FDiv(FromInt(n), FromInt(100))

severity_weightsHighAsMedium(severity) ==
    CASE severity = "critical" -> FromInt(10)
      [] severity = "high" -> FromInt(5)
      [] severity = "medium" -> FromInt(5)
      [] severity = "low" -> Hundredths(250)
      [] severity = "info" -> Hundredths(50)
      [] OTHER -> FZero

\* severity_weights.get(v.severity, 0)
severity_weights(severity) ==
    CASE severity = "critical" -> FromInt(10)
      [] severity = "high" -> Hundredths(750)
      [] severity = "medium" -> FromInt(5)
      [] severity = "low" -> Hundredths(250)
      [] severity = "info" -> Hundredths(50)
      [] OTHER -> FZero

\* v.confidence: the model keeps a confidence in hundredths
confidence(v) == Hundredths(v.confidence)

\* sum(severity_weights.get(v.severity, 0) * v.confidence for v in vs):
\* the terms are added from left to right, each addition rounded
RECURSIVE total_score(_)
total_score(vs) ==
    IF vs = <<>> THEN FZero
    ELSE FAdd(total_score(SubSeq(vs, 1, Len(vs) - 1)),
              FMul(severity_weights(vs[Len(vs)].severity),
                   confidence(vs[Len(vs)])))

max_possibleCount(vs) == FromInt(Len(vs))

\* len(vs) * 10.0
max_possible(vs) == FMul(FromInt(Len(vs)), FromInt(10))

\* AnalysisReport.calculate_risk_score, on the vulnerabilities of the report
calculate_risk_score(vs) ==
    IF vs = <<>> THEN FZero
    ELSE IF FLess(FZero, max_possible(vs))
         THEN FMin(FromInt(10),
                   FMul(FDiv(total_score(vs), max_possible(vs)), FromInt(10)))
         ELSE FZero

\* ------------------------------------------------------------- docker run
\* A path is the sequence of the pieces a ':' splits it into, because docker
\* splits the argument of -v at every ':' (host, container path, mode).
ArtifactPath == <<"/work/Token.sol">>
ContractPaths == {ArtifactPath, <<"Token.sol">>}
HostPaths == {ArtifactPath, <<"/data">>}
ContainerPaths == {<<"/contracts">>, <<"/data">>, <<"/data", "rw">>}

\* contract_path.absolute(): a relative path is taken from the working
\* directory
absolute(contract_path) ==
    IF contract_path = <<"Token.sol">> THEN ArtifactPath ELSE contract_path

\* Optional[Dict[str, str]]: None, or a dict from host paths to container
\* paths
NoDict == [given |-> FALSE, dict |-> EmptyDict]
Dict(d) == [given |-> TRUE, dict |-> d]

VolumeDicts ==
    {NoDict} \cup
        {Dict(d) : d \in UNION {[hs -> ContainerPaths] : hs \in SUBSET HostPaths}}

\* volumes = {str(contract_path.absolute()): "/contracts"};
\* if additional_volumes: volumes.update(additional_volumes)
volumes(contract_path, additional_volumes) ==
    LET own == absolute(contract_path)
        more == additional_volumes.dict
    IN  IF ~additional_volumes.given \/ DOMAIN more = {}
        THEN [h \in {own} |-> <<"/contracts">>]
        ELSE [h \in {own} \cup DOMAIN more |->
                 IF h \in DOMAIN more THEN more[h] ELSE <<"/contracts">>]

VolumeArgCallerMode(host_path, container_path) == host_path \o container_path

\* f"{host_path}:{container_path}:ro"
VolumeArg(host_path, container_path) ==
    host_path \o container_path \o <<"ro">>

NetworkOptionInverted(network_enabled) ==
    IF network_enabled = "True" THEN <<"--network", "none">> ELSE <<>>

\* if not network_enabled: docker_cmd.extend(["--network", "none"])
NetworkOption(network_enabled) ==
    IF network_enabled # "True" THEN <<"--network", "none">> ELSE <<>>

\* the parameter's default
network_enabled_default == "False"

\* self.config: the keys the resource limits read; a number is kept as its
\* decimal text, a missing key is "absent"
Config(max_memory_mb, max_cpus) ==
    [max_memory_mb |-> max_memory_mb, max_cpus |-> max_cpus]
NoConfig == Config("absent", "absent")
Configs == {Config(m, c) : m \in {"absent", "512", "0"},
                           c \in {"absent", "1", "0"}}

\* "--memory", f"{self.config.get('max_memory_mb', 4096)}m": the argument
\* is the number followed by the unit
MemoryArg(config) == <<Get(config.max_memory_mb, "4096"), "m">>

\* "--cpus", str(self.config.get('max_cpus', 2))
CpusArg(config) == <<Get(config.max_cpus, "2")>>

\* "--security-opt", "no-new-privileges", "--cap-drop", "ALL"
SecurityOptions ==
    <<"--security-opt", "no-new-privileges", "--cap-drop", "ALL">>

\* the parts of docker_cmd that decide mounts, limits and networking: the
\* set of the -v arguments, the arguments of --memory and --cpus, the
\* security options and the network option
docker_cmd(call) ==
    LET vols == volumes(call.contract_path, call.additional_volumes)
        net == IF call.network_enabled = "omitted"
               THEN network_enabled_default ELSE call.network_enabled
    IN  [mounts |-> {VolumeArg(h, vols[h]) : h \in DOMAIN vols},
         memory |-> MemoryArg(call.config),
         cpus |-> CpusArg(call.config),
         security |-> SecurityOptions,
         network |-> NetworkOption(net)]

Call(caller, config, contract_path, additional_volumes, network_enabled) ==
    [caller |-> caller, config |-> config, contract_path |-> contract_path,
     additional_volumes |-> additional_volumes,
     network_enabled |-> network_enabled]

NoCall == Call("none", NoConfig, ArtifactPath, NoDict, "omitted")
NoCmd == [mounts |-> {}, memory |-> <<>>, cpus |-> <<>>, security |-> <<>>,
          network |-> <<>>]

\* ---------------------------------------------------------------- lifecycle
\* An adapter object: self._initialized, self._container_id, whether the
\* image is in the local store, the docker commands the last call issued,
\* the exception that left the last call, and where an `async with` on the
\* object stands ("out", "body", "exited", "failed") with the number of
\* cleanup calls made since it was entered.
\* calls counts the method calls made on the object so far
Life(initialized, container_id, image, calls, last, issued, raised, ctx, cleanups) ==
    [initialized |-> initialized, container_id |-> container_id,
     image |-> image, calls |-> calls, last |-> last, issued |-> issued,
     raised |-> raised, ctx |-> ctx, cleanups |-> cleanups]

NoLife == Life(FALSE, "None", FALSE, 0, "none", <<>>, "none", "out", 0)

initializeNoFlag(l0, spawned, pulled) ==
    LET l == [l0 EXCEPT !.last = "initialize", !.calls = l0.calls + 1] IN
    IF ~spawned THEN [l EXCEPT !.issued = <<>>, !.raised = "OSError"]
    ELSE IF l.image
    THEN [l EXCEPT !.issued = <<"images">>, !.raised = "none",
                   !.initialized = TRUE]
    ELSE IF pulled
    THEN [l EXCEPT !.issued = <<"images", "pull">>, !.raised = "none",
                   !.image = TRUE, !.initialized = TRUE]
    ELSE [l EXCEPT !.issued = <<"images", "pull">>,
                   !.raised = "RuntimeError"]

\* DockerToolWrapper.initialize.  spawned: the docker client can be started
\* (create_subprocess_exec raises OSError otherwise); pulled: docker pull
\* exits 0.  `docker images -q` prints the image id when the image is in
\* the local store and nothing otherwise.
initialize(l0, spawned, pulled) ==
    LET l == [l0 EXCEPT !.last = "initialize", !.calls = l0.calls + 1] IN
    IF l.initialized THEN [l EXCEPT !.issued = <<>>, !.raised = "none"]
    ELSE IF ~spawned THEN [l EXCEPT !.issued = <<>>, !.raised = "OSError"]
    ELSE IF l.image
    THEN [l EXCEPT !.issued = <<"images">>, !.raised = "none",
                   !.initialized = TRUE]
    ELSE IF pulled
    THEN [l EXCEPT !.issued = <<"images", "pull">>, !.raised = "none",
                   !.image = TRUE, !.initialized = TRUE]
    ELSE [l EXCEPT !.issued = <<"images", "pull">>,
                   !.raised = "RuntimeError"]

\* DockerToolWrapper.cleanup
cleanup(l0) ==
    LET l == [l0 EXCEPT !.last = "cleanup", !.calls = l0.calls + 1] IN
    IF l.container_id # "None"
    THEN [l EXCEPT !.issued = <<"stop", "rm">>, !.raised = "none",
                   !.container_id = "None"]
    ELSE [l EXCEPT !.issued = <<>>, !.raised = "none"]

run_in_containerKeepsId(l, timed_out) ==
    [l EXCEPT !.last = "run_in_container", !.calls = l.calls + 1,
              !.issued = IF timed_out THEN <<"run", "kill">> ELSE <<"run">>,
              !.raised = IF timed_out THEN "TimeoutError" ELSE "none",
              !.container_id = "container_name"]

\* run_in_container, as far as the object's fields and the docker commands
\* go: docker run, and docker kill after a timeout; no field is assigned
run_in_container(l, timed_out) ==
    [l EXCEPT !.last = "run_in_container", !.calls = l.calls + 1,
              !.issued = IF timed_out THEN <<"run", "kill">> ELSE <<"run">>,
              !.raised = IF timed_out THEN "TimeoutError" ELSE "none"]

\* ToolWrapper.__aenter__ under `async with`: an exception that leaves
\* initialize leaves the statement, the body is not entered and __aexit__
\* is not called
aenter(l, spawned, pulled) ==
    LET after == initialize(l, spawned, pulled)
    IN  [after EXCEPT !.ctx = IF after.raised = "none" THEN "body" ELSE "failed",
                      !.cleanups = 0]

aexitOnReturnOnly(l, body_raised) ==
    IF body_raised
    THEN [l EXCEPT !.ctx = "exited", !.raised = "BodyError", !.issued = <<>>]
    ELSE [cleanup(l) EXCEPT !.ctx = "exited", !.cleanups = l.cleanups + 1]

\* ToolWrapper.__aexit__ under `async with`: called when the body returns
\* and when it raises; it returns None, so the body's exception goes on
aexit(l, body_raised) ==
    [cleanup(l) EXCEPT !.ctx = "exited", !.cleanups = l.cleanups + 1,
                       !.raised = IF body_raised THEN "BodyError" ELSE "none"]
\* ------------------------------------------------------- report timestamps
\* A datetime is the number of clock readings since the first; an Optional
\* value is <<>> for None and <<v>> for v.
AnalysisStatus ==
    {"pending", "running", "completed", "failed", "timeout", "cancelled"}

\* AnalysisReport's status and timestamps; now is the value datetime.now
\* returns, read is the last value the duration property returned
Stamps(now, status, started_at, completed_at, read) ==
    [now |-> now, status |-> status, started_at |-> started_at,
     completed_at |-> completed_at, read |-> read]

NoStamps == Stamps(0, "pending", 0, <<>>, <<>>)

durationFalsyEpoch(r) ==
    IF r.completed_at # <<>> /\ r.completed_at[1] # 0
    THEN <<r.completed_at[1] - r.started_at>>
    ELSE <<>>

\* AnalysisReport.duration.  `if self.completed_at:` tests an Optional
\* datetime: None is false and every datetime is true.
duration(r) ==
    IF r.completed_at # <<>>
    THEN <<r.completed_at[1] - r.started_at>>
    ELSE <<>>

\* ------------------------------------------------- container wrapper scripts
\* One run of slither-wrapper.py, mythril-wrapper.py or echidna-wrapper.py
\* on a contract file.  Inputs: pragma, what the contract's pragma line is
\* to the version selection ("absent", "resolvable", or "unresolvable" when
\* reading the file or selecting a version raises); use_selected and
\* use_default, whether `solc-select use` exits 0 for the selected version
\* and for 0.8.19; returncode and output, the tool's exit code and whether
\* its stdout is non-blank.  Outputs: ran, whether the tool was started, and
\* the status, returncode and solc_version of the dictionary printed.
Wrap(t, pragma, use_selected, use_default, returncode, output) ==
    [tool |-> t, pragma |-> pragma, use_selected |-> use_selected,
     use_default |-> use_default, returncode |-> returncode,
     output |-> output, done |-> FALSE, ran |-> FALSE, status |-> "none",
     code |-> 0, solc_version |-> "none"]

NoWrap == Wrap("none", "absent", TRUE, TRUE, 0, FALSE)

\* detect-solc-version.py: its exit code and the last line it prints
detect_and_set_version(pragma, use_selected, use_default) ==
    IF pragma = "absent" THEN [exit |-> 0, version |-> "0.8.19"]
    ELSE IF pragma = "resolvable" /\ use_selected
    THEN [exit |-> 0, version |-> "selected"]
    ELSE IF use_default THEN [exit |-> 0, version |-> "0.8.19"]
    ELSE [exit |-> 1, version |-> ""]

\* the tool exit codes a wrapper script takes for a finished analysis
AcceptedCodes(t) == IF t = "slither" THEN {0, 1, 255} ELSE {0, 1}

\* run_slither, run_mythril, run_echidna: the detection script is run with
\* check=True inside the try block
run_tool(w) ==
    LET d == detect_and_set_version(w.pragma, w.use_selected, w.use_default)
    IN  IF d.exit # 0
        THEN [w EXCEPT !.done = TRUE, !.ran = FALSE, !.status = "error",
                       !.code = -1, !.solc_version = "unknown"]
        ELSE [w EXCEPT !.done = TRUE, !.ran = TRUE,
                       !.status = IF w.output
                                     /\ w.returncode \in AcceptedCodes(w.tool)
                                  THEN "success" ELSE "error",
                       !.code = w.returncode,
                       !.solc_version = d.version]


\* ------------------------------------------------------------------- state
VARIABLES
    \* Spec: one adapter instance
    tool,        \* tool_name of the instance
    timeout,     \* config.get('timeout', 300)
    pc,          \* where the current call of analyze stands:
                 \*   "idle"     no call yet
                 \*   "waiting"  suspended in wait_for(process.communicate())
                 \*   "exited"   the docker client has exited, the task not yet resumed
                 \*   "killing"  suspended in _run_command(["docker", "kill", name])
                 \*   "done"     analyze has returned a ToolResult
                 \*   "raised"   an exception has left analyze
    path,        \* the contract_path of the current call
    launched,    \* run_in_container was called in the current call
    timedOut,    \* wait_for raised asyncio.TimeoutError in the current call
    rexit,       \* how run_in_container ended: "none" | "returned" | the exception
    client,      \* the docker run process: "none" | "running" | "exited" | "killed"
    container,   \* the container named self.container_name: "absent" | "running"
    mine,        \* that container was created by the current call
    ret,         \* (stdout, stderr, returncode) of the docker run process
    result,      \* the ToolResult analyze returned
    aexc,        \* the exception that left analyze, or "none"
    \* SpecMap: one mapping loop
    mapTool, mapIn, mapOut,
    \* SpecConc: instances and concurrent invocations
    clock, names, runs, daemon,
    \* SpecPipe: one call of VulnHunterPipeline.analyze
    pipeSel,     \* the tools the configuration selects for the run
    pipeWould,   \* per tool, the ToolResult its adapter returns on the target
    pipeReport,  \* the AnalysisReport the call returned
    \* SpecReport, SpecAgg: one AnalysisReport
    report,      \* its vulnerabilities and metrics
    arrivals,    \* the ToolResults handed to the aggregator, in arrival order
    \* SpecCmd: one docker run command line
    cmdCall,     \* the arguments of the run_in_container call
    cmd,         \* the command built: its mounts and its network option
    \* SpecLife: the lifecycle of one adapter object
    life,        \* _initialized, _container_id, the docker commands issued
    \* SpecTime: the timestamps of one AnalysisReport
    stamps,      \* started_at, completed_at
    \* SpecWrap: one run of a container wrapper script
    wrap         \* what the script did and what it printed

adapterVars ==
    <<tool, timeout, pc, path, launched, timedOut, rexit, client, container,
      mine, ret, result, aexc>>
mapVars == <<mapTool, mapIn, mapOut>>
concVars == <<clock, names, runs, daemon>>
pipeVars == <<pipeSel, pipeWould, pipeReport>>
repVars == <<report, arrivals>>
cmdVars == <<cmdCall, cmd>>
lateVars == <<life, stamps, wrap>>
earlyVars == <<adapterVars, mapVars, concVars, pipeVars, repVars, cmdVars>>
vars == <<earlyVars, lateVars>>

MapIdle == mapTool = "slither" /\ mapIn = <<>> /\ mapOut = List(<<>>)
ConcIdle == clock = 1 /\ names = <<>> /\ runs = <<>> /\ daemon = {}
PipeIdle ==
    /\ pipeSel = {}
    /\ pipeWould = [t \in Tools |-> analyze_except(t, "OSError").result]
    /\ pipeReport = NoReport
RepIdle == report = NoReport /\ arrivals = <<>>
CmdIdle == cmdCall = NoCall /\ cmd = NoCmd
LateIdle == life = NoLife /\ stamps = NoStamps /\ wrap = NoWrap

\* The state after __init__, for every tool and timeout configuration.
AdapterInit ==
    /\ tool \in Tools
    /\ timeout \in TimeoutConfigs
    /\ pc = "idle"
    /\ path = "file"
    /\ launched = FALSE
    /\ timedOut = FALSE
    /\ rexit = "none"
    /\ client = "none"
    /\ container = "absent"
    /\ mine = FALSE
    /\ ret = NoOutcome(tool)
    /\ result = NoResult
    /\ aexc = "none"

AdapterIdle ==
    /\ tool = "slither" /\ timeout = DefaultTimeout /\ pc = "idle"
    /\ path = "file" /\ launched = FALSE /\ timedOut = FALSE /\ rexit = "none"
    /\ client = "none" /\ container = "absent" /\ mine = FALSE
    /\ ret = NoOutcome("slither") /\ result = NoResult /\ aexc = "none"

Init == AdapterInit /\ MapIdle /\ ConcIdle /\ PipeIdle /\ RepIdle /\ CmdIdle
        /\ LateIdle

\* analyze ends with outcome o (Returned or Propagated)
Finish(o) ==
    /\ result' = o.result
    /\ aexc' = o.raised
    /\ pc' = IF o.raised = "none" THEN "done" ELSE "raised"

\* analyze(contract_path), up to its first suspension. Target resolution
\* returns early or raises; otherwise run_in_container builds the command
\* and _run_command spawns docker run (create_subprocess_exec), which raises
\* OSError when the process cannot be started.
AnalyzeBegin(p, spawned) ==
    /\ UNCHANGED <<mapVars, concVars, pipeVars, repVars, cmdVars, lateVars>>
    /\ pc \in {"idle", "done", "raised"}
    /\ path' = p
    /\ timedOut' = FALSE
    /\ ret' = NoOutcome(tool)
    /\ mine' = FALSE
    /\ UNCHANGED <<tool, timeout, container>>
    /\ CASE Resolve(tool, p) = "raise" ->
              /\ Finish(analyze_except(tool, "PermissionError"))
              /\ launched' = FALSE /\ rexit' = "none" /\ client' = "none"
         [] Resolve(tool, p) = "none" ->
              /\ Finish(Returned(ToolResult(tool, "error", List(<<>>), "None",
                                            NoFilesMessage(tool))))
              /\ launched' = FALSE /\ rexit' = "none" /\ client' = "none"
         [] OTHER ->
              /\ launched' = TRUE
              /\ IF spawned
                 THEN /\ client' = "running" /\ rexit' = "none"
                      /\ pc' = "waiting" /\ result' = NoResult /\ aexc' = "none"
                 ELSE /\ client' = "none" /\ rexit' = "OSError"
                      /\ Finish(analyze_except(tool, "OSError"))

\* The docker client asks the daemon for a container named
\* self.container_name (--name). The name is free: the container runs. The
\* name is held by a container an earlier call left behind: docker run
\* exits 125.
DockerCreate ==
    /\ UNCHANGED <<mapVars, concVars, pipeVars, repVars, cmdVars, lateVars>>
    /\ pc = "waiting" /\ client = "running" /\ ~mine
    /\ IF container = "absent"
       THEN /\ container' = "running" /\ mine' = TRUE
            /\ UNCHANGED <<pc, client, ret>>
       ELSE /\ pc' = "exited" /\ client' = "exited"
            /\ ret' = ConflictOutcome(tool)
            /\ UNCHANGED <<container, mine>>
    /\ UNCHANGED <<tool, timeout, path, launched, timedOut, rexit, result, aexc>>

\* The container finishes and --rm removes it; the docker client exits with
\* the container's output and exit code.
ContainerExit(out) ==
    /\ UNCHANGED <<mapVars, concVars, pipeVars, repVars, cmdVars, lateVars>>
    /\ pc = "waiting" /\ client = "running" /\ mine /\ container = "running"
    /\ container' = "absent" /\ mine' = FALSE
    /\ client' = "exited" /\ ret' = out /\ pc' = "exited"
    /\ UNCHANGED <<tool, timeout, path, launched, timedOut, rexit, result, aexc>>

\* A container no task waits for any more finishes by itself (--rm removes
\* it); a docker client still attached to it exits with it.
OrphanExit ==
    /\ UNCHANGED <<mapVars, concVars, pipeVars, repVars, cmdVars, lateVars>>
    /\ container = "running"
    /\ ~(pc = "waiting" /\ mine)
    /\ container' = "absent" /\ mine' = FALSE
    /\ client' = IF client = "running" /\ pc # "waiting" THEN "exited" ELSE client
    /\ UNCHANGED <<tool, timeout, pc, path, launched, timedOut, rexit, ret,
                   result, aexc>>

\* communicate() returns; run_in_container returns the tuple and analyze
\* parses and classifies it.
Collect ==
    /\ UNCHANGED <<mapVars, concVars, pipeVars, repVars, cmdVars, lateVars>>
    /\ pc = "exited"
    /\ rexit' = "returned"
    /\ Finish(Classify(tool, ret))
    /\ UNCHANGED <<tool, timeout, path, launched, timedOut, client, container,
                   mine, ret>>

\* wait_for raises asyncio.TimeoutError (only when `if timeout:` holds):
\* _run_command kills the docker client and re-raises; run_in_container
\* spawns docker kill, which raises OSError when it cannot be started.
Timeout(spawned) ==
    /\ UNCHANGED <<mapVars, concVars, pipeVars, repVars, cmdVars, lateVars>>
    /\ pc = "waiting" /\ timeout # 0
    /\ timedOut' = TRUE
    /\ client' = "killed"
    /\ IF spawned
       THEN pc' = "killing" /\ UNCHANGED <<rexit, result, aexc>>
       ELSE rexit' = "OSError" /\ Finish(analyze_except(tool, "OSError"))
    /\ UNCHANGED <<tool, timeout, path, launched, container, mine, ret>>

\* docker kill exits. killed: the daemon killed the container with that
\* name (--rm then removes it). Otherwise docker kill failed and the
\* container is as it was; the exit code is not looked at. Then
\* run_in_container raises TimeoutError.
KillDone(killed) ==
    /\ UNCHANGED <<mapVars, concVars, pipeVars, repVars, cmdVars, lateVars>>
    /\ pc = "killing"
    /\ IF killed /\ container = "running"
       THEN container' = "absent" /\ mine' = FALSE
       ELSE UNCHANGED <<container, mine>>
    /\ rexit' = "TimeoutError"
    /\ Finish(analyze_except(tool, "TimeoutError"))
    /\ UNCHANGED <<tool, timeout, path, launched, timedOut, client, ret>>

\* The task is cancelled while suspended: CancelledError is raised at the
\* await. No except clause on the way names it, no finally clause runs.
Cancel ==
    /\ UNCHANGED <<mapVars, concVars, pipeVars, repVars, cmdVars, lateVars>>
    /\ pc \in {"waiting", "exited", "killing"}
    /\ rexit' = "CancelledError"
    /\ Finish(analyze_except(tool, "CancelledError"))
    /\ UNCHANGED <<tool, timeout, path, launched, timedOut, client, container,
                   mine, ret>>

Next ==
    \/ \E p \in Paths, spawned \in BOOLEAN : AnalyzeBegin(p, spawned)
    \/ DockerCreate
    \/ \E out \in Outcomes(tool) : ContainerExit(out)
    \/ OrphanExit
    \/ Collect
    \/ \E spawned \in BOOLEAN : Timeout(spawned)
    \/ \E killed \in BOOLEAN : KillDone(killed)
    \/ Cancel

Spec == Init /\ [][Next]_vars

\* ----------------------------------------------------------------- SpecMap
SlitherEntries == {DetReentrancy, DetCustom, DetNoCheck, DetNotObject}
MythrilEntries == {IssueReentrancy, IssueBareId, IssueNoId, IssueNotObject}
EchidnaEntries == {"balance_ok", "custom_prop", "overflow_reentrancy"}

MapEntries(t) ==
    CASE t = "slither" -> SlitherEntries
      [] t = "mythril" -> MythrilEntries
      [] OTHER -> EchidnaEntries

SeqsUpTo(S, n) == UNION {[1..m -> S] : m \in 0..n}

\* the mapping stage of adapter t on the entries the tool reports
MapStage(t, entries) ==
    CASE t = "slither" -> SlitherMap(entries)
      [] t = "mythril" -> MythrilMap(entries)
      [] OTHER -> EchidnaMap(entries)

MapRun(t, entries) ==
    /\ UNCHANGED <<adapterVars, concVars, pipeVars, repVars, cmdVars, lateVars>>
    /\ mapTool' = t
    /\ mapIn' = entries
    /\ mapOut' = MapStage(t, entries)

MapNext ==
    \E t \in Tools : \E entries \in SeqsUpTo(MapEntries(t), MaxEntries) :
        MapRun(t, entries)

InitMap == AdapterIdle /\ MapIdle /\ ConcIdle /\ PipeIdle /\ RepIdle /\ CmdIdle
        /\ LateIdle

SpecMap == InitMap /\ [][MapNext]_vars

\* ---------------------------------------------------------------- SpecConc
ConcTools == {"slither", "mythril"}
RandSuffixes == RandLo..(RandLo + RandChoices - 1)

\* container_name = f"vulnhunter-{tool_name}-{unique_id}", with
\* unique_id = f"{int(time.time() * 1000000)}-{random.randint(1000, 9999)}"
ContainerName(t, now, rnd) == [tool |-> t, ts |-> now, rnd |-> rnd]

\* time.time() moves on
Tick ==
    /\ UNCHANGED <<adapterVars, mapVars, pipeVars, repVars, cmdVars, lateVars>>
    /\ clock < MaxClock
    /\ clock' = clock + 1
    /\ UNCHANGED <<names, runs, daemon>>

\* __init__ of one more adapter instance: the name is fixed here
Construct(t, rnd) ==
    /\ UNCHANGED <<adapterVars, mapVars, pipeVars, repVars, cmdVars, lateVars>>
    /\ Len(names) < NumWrappers
    /\ names' = Append(names, ContainerName(t, clock, rnd))
    /\ UNCHANGED <<clock, runs, daemon>>

\* run_in_container on instance w: docker run --name self.container_name
RunStart(w) ==
    /\ UNCHANGED <<adapterVars, mapVars, pipeVars, repVars, cmdVars, lateVars>>
    /\ Len(runs) < MaxRuns
    /\ runs' = Append(runs, [w |-> w, name |-> names[w], st |-> "starting"])
    /\ UNCHANGED <<clock, names, daemon>>

\* the daemon creates the container, or refuses a name that is in use
DaemonCreate(i) ==
    /\ UNCHANGED <<adapterVars, mapVars, pipeVars, repVars, cmdVars, lateVars>>
    /\ runs[i].st = "starting"
    /\ IF runs[i].name \in daemon
       THEN runs' = [runs EXCEPT ![i].st = "conflict"] /\ UNCHANGED daemon
       ELSE /\ runs' = [runs EXCEPT ![i].st = "running"]
            /\ daemon' = daemon \cup {runs[i].name}
    /\ UNCHANGED <<clock, names>>

\* the container exits and --rm removes it
RunEnd(i) ==
    /\ UNCHANGED <<adapterVars, mapVars, pipeVars, repVars, cmdVars, lateVars>>
    /\ runs[i].st = "running"
    /\ runs' = [runs EXCEPT ![i].st = "ended"]
    /\ daemon' = daemon \ {runs[i].name}
    /\ UNCHANGED <<clock, names>>

ConcNext ==
    \/ Tick
    \/ \E t \in ConcTools, rnd \in RandSuffixes : Construct(t, rnd)
    \/ \E w \in 1..Len(names) : RunStart(w)
    \/ \E i \in 1..Len(runs) : DaemonCreate(i)
    \/ \E i \in 1..Len(runs) : RunEnd(i)

InitConc == AdapterIdle /\ MapIdle /\ ConcIdle /\ PipeIdle /\ RepIdle /\ CmdIdle
        /\ LateIdle

SpecConc == InitConc /\ [][ConcNext]_vars

\* ---------------------------------------------------------------- SpecPipe
\* VulnHunterPipeline.analyze(target, config). sel is the tool selection of
\* the configuration, would[t] the ToolResult adapter t returns on the
\* target; the method reads neither.
PipelineAnalyze(sel, would) ==
    /\ UNCHANGED <<adapterVars, mapVars, concVars, repVars, cmdVars, lateVars>>
    /\ pipeSel' = sel
    /\ pipeWould' = would
    /\ pipeReport' = PipelineReport("target", sel)

PipeNext ==
    \E sel \in SUBSET Tools :
        \E would \in [Tools -> UNION {AdapterResults(t) : t \in Tools}] :
            /\ \A t \in Tools : would[t] \in AdapterResults(t)
            /\ PipelineAnalyze(sel, would)

InitPipe == AdapterIdle /\ MapIdle /\ ConcIdle /\ PipeIdle /\ RepIdle /\ CmdIdle
        /\ LateIdle

SpecPipe == InitPipe /\ [][PipeNext]_vars

\* -------------------------------------------------------------- SpecReport
\* One AnalysisReport object: it is constructed, then vulnerabilities are
\* added to its list.  Nothing in the model class touches metrics.
Confidences == {0, 90, 100}

Vulnerability(severity, conf) == [severity |-> severity, confidence |-> conf]

Vulnerabilities ==
    {Vulnerability(SeverityLevel[i], c) : i \in DOMAIN SeverityLevel,
                                          c \in Confidences}

\* report = AnalysisReport(contract_name=...)
NewReport ==
    /\ UNCHANGED <<adapterVars, mapVars, concVars, pipeVars, cmdVars, lateVars>>
    /\ report' = AnalysisReport("Target", "pending")
    /\ UNCHANGED arrivals

\* report.vulnerabilities.append(v)
AddVulnerability(v) ==
    /\ UNCHANGED <<adapterVars, mapVars, concVars, pipeVars, cmdVars, lateVars>>
    /\ report # NoReport
    /\ Len(report.vulnerabilities) < MaxVulns
    /\ report' = [report EXCEPT !.vulnerabilities = Append(@, v)]
    /\ UNCHANGED arrivals

ReportNext ==
    \/ NewReport
    \/ \E v \in Vulnerabilities : AddVulnerability(v)

InitReport == AdapterIdle /\ MapIdle /\ ConcIdle /\ PipeIdle /\ RepIdle /\ CmdIdle
        /\ LateIdle

SpecReport == InitReport /\ [][ReportNext]_vars

\* ----------------------------------------------------------------- SpecAgg
\* The Report Aggregator: ToolResults arrive one by one, in any order, and
\* are folded into one AnalysisReport.
DetPragma ==
    [isdict |-> TRUE, check |-> "pragma", impact |-> "Informational",
     confidence |-> "High", elements |-> "some"]
DetSolcVersion ==
    [isdict |-> TRUE, check |-> "solc-version", impact |-> "Informational",
     confidence |-> "High", elements |-> "none"]

\* what the adapter of tool t can hand to the aggregator
ArrivalResults(t) ==
    AdapterResults(t) \cup
        (IF t = "slither"
         THEN {ToolResult(t, "success",
                          List(SlitherLoop(<<DetPragma, DetSolcVersion>>)),
                          "text", "None"),
               ToolResult(t, "success",
                          List(SlitherLoop(<<DetReentrancy, DetPragma>>)),
                          "text", "None")}
         ELSE IF t = "mythril"
         THEN {ToolResult(t, "success",
                          List(MythrilLoop(<<IssueReentrancy, IssueBareId>>)),
                          "text", "None")}
         ELSE {})

\* merge policy: the findings of the results, concatenated in arrival order
RECURSIVE Merge(_)
Merge(trs) ==
    IF trs = <<>> THEN <<>>
    ELSE Merge(SubSeq(trs, 1, Len(trs) - 1)) \o trs[Len(trs)].findings.items

\* counts of the vulnerabilities grouped by one attribute, keys being the
\* attribute's value per vulnerability; a vulnerability that lacks the
\* attribute is not counted
CountBy(keys, missing) ==
    [k \in {keys[i] : i \in DOMAIN keys} \ missing |->
        Cardinality({i \in DOMAIN keys : keys[i] = k})]

BySeverity(vs) == [i \in DOMAIN vs |-> vs[i].severity]
ByType(vs) == [i \in DOMAIN vs |-> vs[i].vulnerability_type]
BySwc(vs) == [i \in DOMAIN vs |-> vs[i].swc_id]

Metrics(vs) ==
    [total_vulnerabilities |-> Len(vs),
     by_severity |-> CountBy(BySeverity(vs), {}),
     by_type |-> CountBy(ByType(vs), {}),
     by_swc |-> CountBy(BySwc(vs), {"none", ""})]

ReportToolResult(tr) ==
    [tool_name |-> tr.tool_name, status |-> tr.status,
     findings_count |-> Len(tr.findings.items)]

Aggregate(trs) ==
    [AnalysisReport("Target", "completed") EXCEPT
        !.vulnerabilities = Merge(trs),
        !.tool_results = [i \in DOMAIN trs |-> ReportToolResult(trs[i])],
        !.metrics = Metrics(Merge(trs))]

\* the ToolResult of one more adapter arrives
Arrive(tr) ==
    /\ UNCHANGED <<adapterVars, mapVars, concVars, pipeVars, cmdVars, lateVars>>
    /\ \A i \in DOMAIN arrivals : arrivals[i].tool_name # tr.tool_name
    /\ arrivals' = Append(arrivals, tr)
    /\ report' = Aggregate(arrivals')

AggNext == \E t \in Tools : \E tr \in ArrivalResults(t) : Arrive(tr)

InitAgg == AdapterIdle /\ MapIdle /\ ConcIdle /\ PipeIdle /\ RepIdle /\ CmdIdle
        /\ LateIdle

SpecAgg == InitAgg /\ [][AggNext]_vars

\* ----------------------------------------------------------------- SpecCmd
\* The docker run command line run_in_container builds.
\* the call of run_in_container made by analyze of the adapter of tool t:
\* run_in_container(command=..., contract_path=..., network_enabled=False)
AdapterRun(t, config, contract_path) ==
    /\ UNCHANGED <<adapterVars, mapVars, concVars, pipeVars, repVars, lateVars>>
    /\ cmdCall' = Call(t, config, contract_path, NoDict, "False")
    /\ cmd' = docker_cmd(cmdCall')

\* a call of run_in_container by any other caller, with any arguments
DirectRun(config, contract_path, additional_volumes, network_enabled) ==
    /\ UNCHANGED <<adapterVars, mapVars, concVars, pipeVars, repVars, lateVars>>
    /\ cmdCall' = Call("direct", config, contract_path, additional_volumes,
                       network_enabled)
    /\ cmd' = docker_cmd(cmdCall')

CmdNext ==
    \/ \E t \in Tools, c \in Configs, p \in ContractPaths : AdapterRun(t, c, p)
    \/ \E c \in Configs, p \in ContractPaths, av \in VolumeDicts,
          ne \in {"omitted", "True", "False"} : DirectRun(c, p, av, ne)

InitCmd == AdapterIdle /\ MapIdle /\ ConcIdle /\ PipeIdle /\ RepIdle /\ CmdIdle
        /\ LateIdle

SpecCmd == InitCmd /\ [][CmdNext]_vars

\* ----------------------------------------------------------------- SpecSev
\* The severity mappings of the adapters, applied by their mapping loops to
\* entries that differ in the severity value the tool reports.
SeverityValues ==
    {"High", "Medium", "Low", "Informational", "Optimization", "Critical",
     "high", "absent"}

\* the entries of tool t that carry the severity values, one per value
SeverityEntries(t, values) ==
    [i \in DOMAIN values |->
        IF t = "slither" THEN [DetReentrancy EXCEPT !.impact = values[i]]
        ELSE [IssueReentrancy EXCEPT !.severity = values[i]]]

\* the mapping loop of adapter t runs over the entries
MapSeverities ==
    /\ UNCHANGED <<adapterVars, concVars, pipeVars, repVars, cmdVars, lateVars>>
    /\ mapIn # <<>>
    /\ mapOut' = MapStage(mapTool, SeverityEntries(mapTool, mapIn))
    /\ UNCHANGED <<mapTool, mapIn>>

SevNext == MapSeverities

InitSev ==
    /\ AdapterIdle /\ ConcIdle /\ PipeIdle /\ RepIdle /\ CmdIdle
        /\ LateIdle
    /\ mapTool \in {"slither", "mythril"}
    /\ mapIn \in SeqsUpTo(SeverityValues, MaxSeverities)
    /\ mapOut = List(<<>>)

SpecSev == InitSev /\ [][SevNext]_vars

\* ---------------------------------------------------------------- SpecLife
\* One adapter object over its life: direct calls of initialize, cleanup and
\* analyze, the object used as an async context manager, and the image
\* leaving the local store.
Initialize(spawned, pulled) ==
    /\ UNCHANGED <<earlyVars, stamps, wrap>>
    /\ life.calls < MaxCalls
    /\ life' = initialize(life, spawned, pulled)

Cleanup ==
    /\ UNCHANGED <<earlyVars, stamps, wrap>>
    /\ life.calls < MaxCalls
    /\ life' = cleanup(life)

\* analyze, which calls run_in_container and catches its exceptions
Analyze(timed_out) ==
    /\ UNCHANGED <<earlyVars, stamps, wrap>>
    /\ life.calls < MaxCalls
    /\ life' = [run_in_container(life, timed_out) EXCEPT !.raised = "none",
                                                        !.last = "analyze"]

\* async with wrapper: (entry)
Enter(spawned, pulled) ==
    /\ UNCHANGED <<earlyVars, stamps, wrap>>
    /\ life.calls < MaxCalls
    /\ life.ctx # "body"
    /\ life' = aenter(life, spawned, pulled)

\* the body of the async with statement ends, by return or by exception
BodyEnd(body_raised) ==
    /\ UNCHANGED <<earlyVars, stamps, wrap>>
    /\ life.calls < MaxCalls
    /\ life.ctx = "body"
    /\ life' = aexit(life, body_raised)

\* docker rmi by the operator of the host
ImageRemoved ==
    /\ UNCHANGED <<earlyVars, stamps, wrap>>
    /\ life.image
    /\ life' = [life EXCEPT !.image = FALSE, !.last = "rmi"]

LifeNext ==
    \/ \E spawned, pulled \in BOOLEAN : Initialize(spawned, pulled)
    \/ Cleanup
    \/ \E timed_out \in BOOLEAN : Analyze(timed_out)
    \/ \E spawned, pulled \in BOOLEAN : Enter(spawned, pulled)
    \/ \E body_raised \in BOOLEAN : BodyEnd(body_raised)
    \/ ImageRemoved

InitLife == AdapterIdle /\ MapIdle /\ ConcIdle /\ PipeIdle /\ RepIdle /\ CmdIdle
        /\ LateIdle

SpecLife == InitLife /\ [][LifeNext]_vars

\* ---------------------------------------------------------------- SpecTime
\* One AnalysisReport: its fields are assigned by its owner, the clock moves
\* forward and can be set back, and the duration property is read.
ClockTick ==
    /\ UNCHANGED <<earlyVars, life, wrap>>
    /\ stamps.now < MaxClock
    /\ stamps' = [stamps EXCEPT !.now = stamps.now + 1]

\* the host's clock is set back (datetime.now is not monotonic)
ClockSetBack ==
    /\ UNCHANGED <<earlyVars, life, wrap>>
    /\ stamps.now > 0
    /\ stamps' = [stamps EXCEPT !.now = stamps.now - 1]

SetStatus(status) ==
    /\ UNCHANGED <<earlyVars, life, wrap>>
    /\ stamps' = [stamps EXCEPT !.status = status]

\* report.completed_at = datetime.now()
SetCompletedAt ==
    /\ UNCHANGED <<earlyVars, life, wrap>>
    /\ stamps' = [stamps EXCEPT !.completed_at = <<stamps.now>>]

\* report.completed_at = None
ClearCompletedAt ==
    /\ UNCHANGED <<earlyVars, life, wrap>>
    /\ stamps' = [stamps EXCEPT !.completed_at = <<>>]

\* report.duration
ReadDuration ==
    /\ UNCHANGED <<earlyVars, life, wrap>>
    /\ stamps' = [stamps EXCEPT !.read = <<duration(stamps)>>]

TimeNext ==
    \/ ClockTick
    \/ ClockSetBack
    \/ \E status \in AnalysisStatus : SetStatus(status)
    \/ SetCompletedAt
    \/ ClearCompletedAt
    \/ ReadDuration

\* AnalysisReport(contract_name=...): started_at is datetime.now()
InitTime ==
    /\ AdapterIdle /\ MapIdle /\ ConcIdle /\ PipeIdle /\ RepIdle /\ CmdIdle
    /\ life = NoLife /\ wrap = NoWrap
    /\ \E now \in 0..MaxClock :
         stamps = Stamps(now, "pending", now, <<>>, <<>>)

SpecTime == InitTime /\ [][TimeNext]_vars

\* ---------------------------------------------------------------- SpecWrap
\* One run of a container wrapper script.
RunWrapper ==
    /\ UNCHANGED <<earlyVars, life, stamps>>
    /\ ~wrap.done
    /\ wrap' = run_tool(wrap)

WrapNext == RunWrapper

InitWrap ==
    /\ AdapterIdle /\ MapIdle /\ ConcIdle /\ PipeIdle /\ RepIdle /\ CmdIdle
    /\ life = NoLife /\ stamps = NoStamps
    /\ \E t \in Tools, pragma \in {"absent", "resolvable", "unresolvable"},
          use_selected, use_default, output \in BOOLEAN,
          returncode \in {0, 1, 2, 255} :
         wrap = Wrap(t, pragma, use_selected, use_default, returncode, output)

SpecWrap == InitWrap /\ [][WrapNext]_vars

\* ------------------------------------------------------------------ claims
\* the parser's verdict on the stdout of the current call
Parsed == parse_wrapper_output(tool, ret.stdout)

\* run_in_container returned its tuple and analyze returned
ReturnedTuple == pc = "done" /\ rexit = "returned"

\* C1: when run_in_container returns a non-zero exit code with output from
\* which findings parse, analyze returns SUCCESS with exactly the parsed
\* findings (so never ERROR).
C1_NonZeroExitWithFindingsIsSuccess ==
    (ReturnedTuple /\ ret.returncode # 0 /\ Parsed.tag = "list")
        => (result.status = "success" /\ result.findings = Parsed
            /\ result.tool_name = tool)

C1_Witness ==
    /\ ReturnedTuple /\ ret.returncode = 1
    /\ Parsed.tag = "list" /\ Len(Parsed.items) = 2
    /\ result.status = "success" /\ result.findings = Parsed

\* stdout is not well-formed wrapper JSON, or the wrapper reports a status
\* other than success
Unparseable(so) == so.k \in {"empty", "text", "scalar"} \/ so.status # "success"

\* the success marker each adapter recognizes
SuccessMarker(t, r) ==
    CASE t = "slither" -> SlitherMarker(r.stdout)
      [] t = "mythril" -> r.errmark
      [] OTHER -> FALSE

\* C2: a non-zero exit code with unparseable output and no success marker
\* is classified ERROR with findings == [].
C2_UnparseableNonZeroIsError ==
    (ReturnedTuple /\ ret.returncode # 0 /\ Unparseable(ret.stdout)
        /\ ~SuccessMarker(tool, ret))
        => (result.status = "error" /\ result.findings = List(<<>>))

\* C3: when the sandboxed process exceeds its timeout, analyze returns
\* TIMEOUT with findings == [] and an error message, whatever the forced
\* termination step does.
C3_TimeoutIsTimeoutStatus ==
    (timedOut /\ pc = "done")
        => (result.status = "timeout" /\ result.findings = List(<<>>)
            /\ result.error_message # "None")

\* C4: once run_in_container has returned or raised, no container with the
\* invocation's name is running.
C4_NoContainerAfterRun ==
    (launched /\ pc = "done") => container # "running"

\* C5: when the task is cancelled while it waits for the sandboxed process,
\* the docker client and the named container are killed before the
\* cancellation propagates.
C5_CancelCleansUp ==
    (pc = "raised" /\ aexc = "CancelledError")
        => (client # "running" /\ container # "running")

\* C6: no two invocations of run_in_container that are in flight at the same
\* time use the same container name.
InFlight(i) == runs[i].st \in {"starting", "running"}

C6_UniqueEnvironmentIds ==
    \A i, j \in 1..Len(runs) :
        (i # j /\ InFlight(i) /\ InFlight(j)) => runs[i].name # runs[j].name

\* C7: whatever target resolution, sandbox execution and parsing do (return,
\* TimeoutError, any other Exception), analyze returns a ToolResult and no
\* exception leaves it; only the cancellation of the task itself does.
C7_AnalyzeAlwaysReturnsResult ==
    /\ (pc = "raised") => (aexc = "CancelledError" /\ rexit = "CancelledError")
    /\ (pc = "done") =>
          (aexc = "none" /\ result.tool_name = tool
           /\ result.status \in {"success", "error", "timeout"})

C7_Witness ==
    /\ pc = "done" /\ rexit = "OSError" /\ timedOut
    /\ result.status = "error" /\ result.error_message = FailedPrefix(tool)

\* C8: a returned ToolResult with status SUCCESS has a list of findings (never
\* None); with any other status it has no findings and an error message or a
\* raw output.
C8_ToolResultInvariant ==
    (pc = "done") =>
        /\ (result.status = "success") => result.findings.tag = "list"
        /\ (result.status # "success") =>
              /\ result.findings = List(<<>>)
              /\ (result.error_message # "None" \/ result.raw_output = "text")

C8_Witness ==
    /\ ReturnedTuple /\ tool = "echidna" /\ Parsed = NoneList
    /\ result.status = "error" /\ result.findings = List(<<>>)
    /\ result.error_message # "None"

\* C9: analyze on a directory without a matching source file returns ERROR
\* with findings == [] and an error message, and never calls
\* run_in_container.
C9_EmptyDirectoryIsErrorWithoutLaunch ==
    (path = "dir_empty" /\ pc # "idle") =>
        /\ ~launched
        /\ (pc = "done") =>
              (result.status = "error" /\ result.findings = List(<<>>)
               /\ result.error_message # "None")

\* the keys of swc_to_vuln_type
MythrilSwcKeys ==
    {"SWC-101", "SWC-104", "SWC-105", "SWC-106", "SWC-107", "SWC-110",
     "SWC-112", "SWC-113", "SWC-115", "SWC-116", "SWC-120", "SWC-124",
     "SWC-128"}

\* the entry's category is not in the adapter's table
Unmapped(t, entry) ==
    CASE t = "slither" -> entry.check \notin SlitherDetectorKeys
      [] t = "mythril" -> entry.swc \notin MythrilSwcKeys
      [] OTHER -> \A n \in 1..Len(EchidnaKeywords) :
                      ~KeywordIn(EchidnaKeywords[n][1], entry)

\* every entry is what the tool reports: a detector or issue object, or a
\* violated property
AllReported(t, entries) ==
    t = "echidna" \/ \A n \in 1..Len(entries) : entries[n].isdict

\* C10: the mapping stage yields exactly one Finding per entry the tool
\* reports, in order, and an entry whose category is not in the adapter's
\* table comes out with vulnerability type "unknown".
C10_MappingPreservesCount ==
    AllReported(mapTool, mapIn) =>
        /\ mapOut.tag = "list"
        /\ Len(mapOut.items) = Len(mapIn)
        /\ \A n \in 1..Len(mapIn) :
              /\ mapOut.items[n].tool = mapTool
              /\ Unmapped(mapTool, mapIn[n])
                    => mapOut.items[n].vulnerability_type = "unknown"

C10_Witness ==
    /\ mapTool = "slither" /\ Len(mapIn) = 3 /\ AllReported(mapTool, mapIn)
    /\ Unmapped(mapTool, mapIn[2]) /\ ~Unmapped(mapTool, mapIn[3])
    /\ Len(mapOut.items) = 3
    /\ mapOut.items[2].vulnerability_type = "unknown"
    /\ mapOut.items[3].vulnerability_type = "reentrancy"

\* the elements of a sequence
Range(f) == {f[i] : i \in DOMAIN f}

\* pipeline.analyze has returned a report
PipelineReturned == pipeReport # NoReport

\* the selected adapters that return SUCCESS on the target
Succeeded == {t \in pipeSel : pipeWould[t].status = "success"}

\* C11: the report of VulnHunterPipeline.analyze has status FAILED exactly
\* when at least one adapter was to be run and none of them returns SUCCESS;
\* otherwise its status is COMPLETED.
C11_FailedIffNoAdapterSucceeded ==
    PipelineReturned =>
        /\ pipeReport.status \in {"failed", "completed"}
        /\ pipeReport.status = "failed" <=> (pipeSel # {} /\ Succeeded = {})

\* the report records a result of adapter t with the given status
Recorded(t, status) ==
    \E n \in 1..Len(pipeReport.tool_results) :
        /\ pipeReport.tool_results[n].tool_name = t
        /\ pipeReport.tool_results[n].status = status

\* C12: when the adapters of one run are joined and one of them times out,
\* the join completes, that adapter is recorded with status TIMEOUT, every
\* adapter that succeeds is recorded with SUCCESS and its findings are in
\* the report's vulnerabilities, and the report is COMPLETED.
C12_TimeoutOfOneLeavesOthers ==
    PipelineReturned =>
        \A b \in pipeSel :
            pipeWould[b].status = "timeout" =>
                /\ Recorded(b, "timeout")
                /\ \A a \in Succeeded :
                      /\ Recorded(a, "success")
                      /\ Range(pipeWould[a].findings.items)
                            \subseteq Range(pipeReport.vulnerabilities)
                /\ Succeeded # {} => pipeReport.status = "completed"

\* ten times the weight the risk score gives a severity, as an integer
WeightTenths(severity) ==
    CASE severity = "critical" -> 100
      [] severity = "high" -> 75
      [] severity = "medium" -> 50
      [] severity = "low" -> 25
      [] severity = "info" -> 5

\* sum of weight * confidence over vs, in thousandths
RECURSIVE WeightedSum(_)
WeightedSum(vs) ==
    IF vs = <<>> THEN 0
    ELSE WeightTenths(Head(vs).severity) * Head(vs).confidence
           + WeightedSum(Tail(vs))

BAbsDiff(a, b) == IF BLess(a, b) THEN BSub(b, a) ELSE BSub(a, b)

\* the float x is within 2^-45 of the rational num / den
Near(x, num, den) ==
    LET k == Max2(0, 0 - x.e)
        scaled == BMul(BShl(x.m, x.e + k), BFromInt(den))
        exact == BShl(BFromInt(num), k)
    IN  ~BLess(BShl(BFromInt(den), k), BShl(BAbsDiff(scaled, exact), 45))

ReportBuilt == report # NoReport

\* C14: calculate_risk_score returns 0 for a report without vulnerabilities;
\* for a non-empty list with every confidence in [0,1] it returns
\* min(10, 10 * sum(weight * confidence) / (10 * count)) with the weights
\* critical 10, high 7.5, medium 5, low 2.5, info 0.5 (up to the rounding
\* of float arithmetic), and the result lies in [0, 10].
C14_RiskScoreFormula ==
    ReportBuilt =>
        LET vs == report.vulnerabilities
            score == calculate_risk_score(vs)
            n == Len(vs)
        IN  /\ vs = <<>> => score = FZero
            /\ vs # <<>> =>
                  /\ Near(score, Min2(WeightedSum(vs), 10000 * n), 1000 * n)
                  /\ ~FLess(FromInt(10), score)

C14_Witness ==
    /\ ReportBuilt
    /\ Len(report.vulnerabilities) = 2
    /\ report.vulnerabilities[1] = Vulnerability("high", 90)
    /\ report.vulnerabilities[2] = Vulnerability("info", 100)
    /\ FLess(FZero, calculate_risk_score(report.vulnerabilities))
    /\ FLess(calculate_risk_score(report.vulnerabilities), FromInt(10))

Rank(severity) == CHOOSE i \in DOMAIN SeverityLevel : SeverityLevel[i] = severity

\* every vulnerability of vs has confidence c
AllConfidence(vs, c) == \A i \in DOMAIN vs : vs[i].confidence = c

\* severity is strictly higher than every severity present in vs
HigherThanAll(severity, vs) ==
    \A i \in DOMAIN vs : Rank(vs[i].severity) < Rank(severity)

\* C15: when every finding has the same confidence c > 0, adding a finding
\* whose severity is strictly higher than every severity present gives a
\* strictly greater risk score.
C15_HigherSeverityRaisesScore ==
    ReportBuilt =>
        \A c \in Confidences \ {0} :
            AllConfidence(report.vulnerabilities, c) =>
                \A i \in DOMAIN SeverityLevel :
                    HigherThanAll(SeverityLevel[i], report.vulnerabilities) =>
                        FLess(calculate_risk_score(report.vulnerabilities),
                              calculate_risk_score(
                                  Append(report.vulnerabilities,
                                         Vulnerability(SeverityLevel[i], c))))

C15_Witness ==
    /\ ReportBuilt
    /\ report.vulnerabilities
          = <<Vulnerability("medium", 90), Vulnerability("low", 90)>>
    /\ HigherThanAll("high", report.vulnerabilities)
    /\ FLess(calculate_risk_score(report.vulnerabilities),
             calculate_risk_score(Append(report.vulnerabilities,
                                         Vulnerability("high", 90))))

\* C16: in every state of a report, after its construction and after any
\* addition of a vulnerability, metrics.total_vulnerabilities equals the
\* length of the vulnerabilities list.
C16_TotalMatchesList ==
    ReportBuilt =>
        report.metrics.total_vulnerabilities = Len(report.vulnerabilities)

ArrivalOrders(n) ==
    {p \in [1..n -> 1..n] : \A i, j \in 1..n : p[i] = p[j] => i = j}

Permuted(trs, p) == [i \in DOMAIN trs |-> trs[p[i]]]

\* C13: aggregation does not depend on the arrival order: every permutation
\* of the N ToolResults that arrived gives the same AnalysisMetrics and the
\* same calculate_risk_score.
C13_AggregationOrderIndependent ==
    \A p \in ArrivalOrders(Len(arrivals)) :
        LET other == Aggregate(Permuted(arrivals, p))
        IN  /\ other.metrics = report.metrics
            /\ calculate_risk_score(other.vulnerabilities)
                  = calculate_risk_score(report.vulnerabilities)

\* C17: the wall-clock timeout is enforced on every run_in_container
\* invocation, for every adapter configuration: while the invocation waits
\* for the sandboxed process, the timeout can fire, so a process that never
\* exits by itself cannot make the invocation wait forever.
C17_TimeoutArmedWhileWaiting ==
    pc = "waiting" => ENABLED (\E spawned \in BOOLEAN : Timeout(spawned))

\* C18: timeout and exit are never conflated: an invocation whose budget was
\* exceeded ends by raising TimeoutError and returns no tuple; an invocation
\* that returns the (stdout, stderr, exit code) tuple did not time out.
C18_TimeoutRaisesExitReturns ==
    /\ (timedOut /\ rexit \notin {"none", "CancelledError"})
          => rexit = "TimeoutError"
    /\ rexit = "returned" => ~timedOut

CmdBuilt == cmdCall # NoCall

NetworkDisabled == cmd.network = <<"--network", "none">>

\* C19: every docker run command built by run_in_container carries
\* --network none unless network_enabled was passed as true for that
\* invocation; the default is disabled, and the three adapters call it with
\* networking disabled.
C19_NetworkNoneUnlessEnabled ==
    CmdBuilt =>
        /\ NetworkDisabled <=> cmdCall.network_enabled # "True"
        /\ cmdCall.caller \in Tools => NetworkDisabled

C19_Witness ==
    /\ CmdBuilt
    /\ cmdCall.caller = "mythril"
    /\ NetworkDisabled

\* the mode docker gives a -v argument: the third piece, read-write when
\* there are two pieces, and a refusal to run for any other number
DockerMode(arg) ==
    IF Len(arg) = 3 THEN arg[3]
    ELSE IF Len(arg) = 2 THEN "rw"
    ELSE "invalid"

\* C20: in every docker run command built by run_in_container the artifact
\* path is mounted read-only and so is every additional volume; an
\* additional volume cannot turn the artifact mount into a writable one.
C20_MountsReadOnly ==
    CmdBuilt =>
        /\ \A arg \in cmd.mounts : DockerMode(arg) \in {"ro", "invalid"}
        /\ \E arg \in cmd.mounts :
              /\ arg[1] = absolute(cmdCall.contract_path)[1]
              /\ arg[Len(arg)] = "ro"

C20_Witness ==
    /\ CmdBuilt
    /\ cmdCall.additional_volumes.given
    /\ ArtifactPath \in DOMAIN cmdCall.additional_volumes.dict
    /\ cmdCall.additional_volumes.dict[ArtifactPath] = <<"/data">>
    /\ \A arg \in cmd.mounts : DockerMode(arg) = "ro"

\* what docker makes of the argument of --memory or --cpus: the number 0
\* means no limit
DockerLimit(arg) == IF arg[1] = "0" THEN "unlimited" ELSE "limited"

\* C21: every docker run command built by run_in_container, for every
\* adapter configuration and every argument combination, carries a memory
\* cap, a CPU cap, no-new-privileges and the drop of all capabilities.
C21_LimitsAndPrivilegesAlways ==
    CmdBuilt =>
        /\ DockerLimit(cmd.memory) = "limited"
        /\ DockerLimit(cmd.cpus) = "limited"
        /\ cmd.security
              = <<"--security-opt", "no-new-privileges", "--cap-drop", "ALL">>

\* the severity values the fixed table of adapter t lists
Listed(t) ==
    IF t = "slither"
    THEN {"High", "Medium", "Low", "Informational", "Optimization"}
    ELSE {"High", "Medium", "Low", "Informational"}

\* the level the tables give a listed value
TableLevel(value) ==
    CASE value = "High" -> "high"
      [] value = "Medium" -> "medium"
      [] value = "Low" -> "low"
      [] OTHER -> "info"

SeveritiesMapped == mapIn # <<>> /\ mapOut # List(<<>>)

\* C22: the severity mapping of an adapter is a total function onto
\* SeverityLevel: a value the adapter's table lists maps to the table's
\* level, every other value maps to medium, and no finding is dropped
\* because its severity value is not recognized.
C22_SeverityMappingTotal ==
    SeveritiesMapped =>
        /\ Len(mapOut.items) = Len(mapIn)
        /\ \A i \in DOMAIN mapIn :
              /\ mapOut.items[i].severity \in Range(SeverityLevel)
              /\ mapOut.items[i].severity
                    = IF mapIn[i] \in Listed(mapTool)
                      THEN TableLevel(mapIn[i]) ELSE "medium"

C22_Witness ==
    /\ SeveritiesMapped
    /\ mapTool = "slither"
    /\ mapIn = <<"Critical", "Optimization">>
    /\ Len(mapOut.items) = 2
    /\ mapOut.items[1].severity = "medium"
    /\ mapOut.items[2].severity = "info"

\* C23: when the sandbox returns the Slither container wrapper's output for
\* a single file on which Slither reports a reentrancy detector, analyze
\* returns SUCCESS with a Finding of type reentrancy, severity high or
\* medium, confidence at least 0.7 and the cross-reference id SWC-107.
C23_SlitherReentrancyReported ==
    (/\ tool = "slither" /\ path = "file" /\ pc = "done"
     /\ rexit = "returned"
     /\ ret.stdout = slither_wrapper_stdout(<<DetReentrancy>>))
        => /\ result.status = "success"
           /\ \E i \in DOMAIN result.findings.items :
                 LET f == result.findings.items[i]
                 IN  /\ f.vulnerability_type = "reentrancy"
                     /\ f.severity \in {"high", "medium"}
                     /\ f.confidence >= 70
                     /\ f.swc_id = "SWC-107"

\* C24: for Echidna output that marks k distinct declared properties as
\* violated, the adapter returns SUCCESS with exactly one Finding per
\* violated property, each without location, whatever the exit status.
C24_OneFindingPerViolatedProperty ==
    \A failed \in {<<"balance_ok">>, <<"balance_ok", "custom_prop">>} :
        (/\ tool = "echidna" /\ pc = "done" /\ rexit = "returned"
         /\ ret.stdout = echidna_wrapper_stdout(failed))
            => /\ result.status = "success"
               /\ Len(result.findings.items) = Len(failed)
               /\ \A i \in DOMAIN result.findings.items :
                     result.findings.items[i].location = "none"

\* Fields of the adapter object that initialize, cleanup and analyze can
\* assign, and the local image store
ObjectState(l) == <<l.initialized, l.container_id, l.image>>

\* C25: initialize is idempotent.  A call made on an initialized object
\* issues no docker command, raises nothing and leaves the object as it
\* was; a call whose docker pull fails raises RuntimeError and leaves the
\* object un-initialized, and a call on an un-initialized object asks
\* docker for the image again.
C25_InitializeIdempotent ==
    [][\A spawned, pulled \in BOOLEAN :
         Initialize(spawned, pulled) =>
           /\ life.initialized =>
                /\ life'.issued = <<>>
                /\ life'.raised = "none"
                /\ ObjectState(life') = ObjectState(life)
           /\ life'.raised = "RuntimeError" =>
                /\ life'.issued = <<"images", "pull">>
                /\ ~life'.initialized
           /\ (~life.initialized /\ spawned) =>
                /\ life'.issued # <<>>
                /\ life'.issued[1] = "images"]_vars

\* initialize was called again on an initialized object whose image has
\* left the local store since
C25_Witness ==
    /\ life.last = "initialize"
    /\ life.calls >= 2
    /\ life.initialized
    /\ ~life.image
    /\ life.issued = <<>>

\* C29: the async context manager.  The body is entered only after
\* initialize returned, with the object initialized; when initialize raises
\* the body is not entered and cleanup is not called; when the body ends,
\* by return or by exception, cleanup is called exactly once.
C29_ContextManagerOrder ==
    [][/\ \A spawned, pulled \in BOOLEAN :
            Enter(spawned, pulled) =>
              /\ life'.last = "initialize"
              /\ life'.cleanups = 0
              /\ IF life'.raised = "none"
                 THEN life'.initialized /\ life'.ctx = "body"
                 ELSE life'.ctx = "failed"
       /\ life'.ctx = "body" => life'.initialized /\ life'.cleanups = 0
       /\ life'.ctx = "failed" => life'.cleanups = 0
       /\ life'.ctx = "exited" => life'.cleanups = 1
       /\ \A body_raised \in BOOLEAN :
            BodyEnd(body_raised) =>
              /\ life'.last = "cleanup"
              /\ life'.cleanups = life.cleanups + 1
              /\ life'.ctx = "exited"]_vars

\* the body raised and the statement was left through __aexit__
C29_Witness ==
    /\ life.ctx = "exited"
    /\ life.raised = "BodyError"
    /\ life.last = "cleanup"
    /\ life.cleanups = 1

\* C30: _container_id is None in every reachable state, so cleanup issues
\* no docker stop or docker rm and leaves the object as it was.
C30_ContainerIdAlwaysNone ==
    [][/\ life.container_id = "None"
       /\ life'.container_id = "None"
       /\ Cleanup =>
            /\ life'.issued = <<>>
            /\ life'.raised = "none"
            /\ ObjectState(life') = ObjectState(life)]_vars

\* cleanup called directly on an initialized object that has been used
C30_Witness ==
    /\ life.last = "cleanup"
    /\ life.ctx = "out"
    /\ life.initialized
    /\ life.calls >= 3

\* C27: AnalysisReport.duration is defined exactly when completed_at is
\* set, and is then completed_at - started_at; every value read from the
\* property agrees with the fields it was read from.
C27_DurationIffCompleted ==
    [][/\ duration(stamps) # <<>> <=> stamps.completed_at # <<>>
       /\ stamps.completed_at # <<>> =>
            duration(stamps)[1] + stamps.started_at = stamps.completed_at[1]
       /\ ReadDuration =>
            /\ stamps'.read[1] # <<>> <=> stamps.completed_at # <<>>
            /\ stamps.completed_at # <<>> =>
                 stamps'.read[1] = <<stamps.completed_at[1] - stamps.started_at>>]_vars

\* the duration was read from a report completed at the first clock
\* reading, after the clock was set back below started_at
C27_Witness ==
    /\ stamps.completed_at = <<0>>
    /\ stamps.started_at > 0
    /\ stamps.read # <<>>
    /\ stamps.read[1] = <<0 - stamps.started_at>>

\* the pragma-based selection of a compiler version failed
ResolutionFailed ==
    \/ wrap.pragma = "unresolvable"
    \/ wrap.pragma = "resolvable" /\ ~wrap.use_selected

\* C26: a failure of compiler-version resolution is not fatal.  The tool is
\* still run, with the default compiler version, and the run is reported as
\* an error only when the tool itself failed.
C26_VersionFailureNonFatal ==
    (wrap.done /\ ResolutionFailed)
        => /\ wrap.ran
           /\ wrap.solc_version = "0.8.19"
           /\ wrap.status = "error" =>
                ~(wrap.output /\ wrap.returncode \in AcceptedCodes(wrap.tool))

\* the wrapper object was read and its "stdout" key, the tool's own output,
\* was handed to _parse_output
ToolOutputParsed ==
    /\ ReturnedTuple
    /\ ret.stdout.k = "obj"
    /\ ret.stdout.status = "success"

\* the tool's output is malformed JSON and holds nothing the text patterns
\* match: the structured parse and the text parse both fail
BothStagesFail(t, d) ==
    /\ d.k = "badjson"
    /\ t = "echidna" => (d.failed = <<>> /\ d.asserts = 0)

\* C28: parsing is staged.  A structured parse that succeeds is the result,
\* whatever the text patterns would match; the text patterns are tried on
\* malformed JSON; and when both stages fail the parse result is None and
\* the run is classified ERROR.
C28_StructuredThenTextThenNone ==
    ToolOutputParsed =>
        LET d == ret.stdout.out
        IN  /\ (tool = "echidna" /\ d.k = "json"
                    /\ Echidna_parse_json_output(d) # Raised)
                => Parsed = Echidna_parse_json_output(d)
            /\ (d.k = "badjson" /\ ~BothStagesFail(tool, d))
                => (Parsed.tag = "list" /\ Parsed.items # <<>>)
            /\ BothStagesFail(tool, d)
                => (Parsed = NoneList /\ result.status = "error")

====
